---- MODULE Spec2Model ----
(***************************************************************************)
(* Model of the SAM test reorganisation scripts of samples/single-module:  *)
(*   reorganize_sam_tests_v2.py  (flat extraction, marker classification)  *)
(*   reorganize_sam_tests.py     (grouped extraction, override table)      *)
(*                                                                         *)
(* A text is a sequence of tokens.  A token is one character of the text,  *)
(* except that the keywords the regular expressions match literally        *)
(* ("@Test", "fun", "fake", "inner", "class") are one token each.  The     *)
(* regular expressions of the scripts are kept as syntax trees and are run *)
(* by a backtracking matcher that returns the alternatives in the order    *)
(* Python's re module tries them.                                          *)
(***************************************************************************)
EXTENDS Integers, Sequences, FiniteSets, TLC

(***************************************************************************)
(* State                                                                   *)
(***************************************************************************)
VARIABLES
  files,               \* the file system under TEST_DIR: path -> text
  pc,                  \* position of main
  fileIdx,             \* loop index into consolidated_files
  tests_by_interface,  \* v2: interface name -> list of full method texts
  all_grouped_tests,   \* v1: (interface name, category) -> list of method texts
  todo,                \* v2: the sorted items still to generate
  created_count,
  out,                 \* what main has printed
  extracted,           \* history: file index -> blocks extracted from it
  origin,              \* history: for every bucket entry, <<file index, block index>>
  order,               \* the order in which main's list names the documents
  run,                 \* the number of the run of main
  first,               \* history: the file system at the end of the first run
  arg,                 \* the argument of a call of one function on its own
  ret                  \* what the call returned

vars == <<files, pc, fileIdx, tests_by_interface, all_grouped_tests, todo, created_count, out,
          extracted, origin, order, run, first, arg, ret>>

(***************************************************************************)
(* Tokens and character classes                                            *)
(***************************************************************************)
Upper == {"A", "C", "E", "G", "H"}
Lower == {"a", "b", "d", "f", "x"}
LetterWords == {"fun", "fake", "inner", "class", "assertTrue", "assertFalse", "assertNull",
                "assertContentEquals", "assertIs", "runTest"}
Whitespace == {" ", "\n"}
\* BT stands for the backquote character, which a TLA+ string cannot hold
BT == "'"
Punct == {BT, "(", ")", "{", "}", "<", "@Test"}
Alphabet == Upper \cup Lower \cup LetterWords \cup Whitespace \cup Punct

\* [a-zA-Z]: a keyword made of letters only is a run of such characters
Letters == Upper \cup Lower \cup LetterWords

(***************************************************************************)
(* Regular expressions as syntax trees                                     *)
(***************************************************************************)
Eps == [op |-> "eps"]
Chr(S) == [op |-> "chr", set |-> S]
Lit(c) == Chr({c})
NotIn(S) == Chr(Alphabet \ S)
Cat(a, b) == [op |-> "cat", a |-> a, b |-> b]
Alt(a, b) == [op |-> "alt", a |-> a, b |-> b]
Star(a) == [op |-> "star", a |-> a]
Plus(a) == Cat(a, Star(a))

RECURSIVE LitSeq(_)
LitSeq(s) == IF s = <<>> THEN Eps ELSE Cat(Lit(Head(s)), LitSeq(Tail(s)))

(***************************************************************************)
(* The matcher.  Ends(re, t, i) is the sequence of positions at which a    *)
(* match of re that starts at position i of t can end, in the order in     *)
(* which a backtracking matcher with greedy repetition tries them.         *)
(*                                                                         *)
(* The recursion follows the nesting of the expression, not the length of  *)
(* the text: sequences are concatenated by halving, and a repetition steps *)
(* over a run of positions at which its operand can only consume one token *)
(* (for such a position j, the ends of the repetition at j are its ends at *)
(* j + 1 followed by j).                                                   *)
(***************************************************************************)
\* F(v) with v computed once, as a local variable of the code is
Let(v, F(_)) == CHOOSE r \in {F(x) : x \in {v}} : TRUE

RECURSIVE Flatten(_, _, _)
Flatten(seqs, lo, hi) ==
  IF lo > hi THEN <<>>
  ELSE IF lo = hi THEN seqs[lo]
  ELSE LET mid == (lo + hi) \div 2
       IN Flatten(seqs, lo, mid) \o Flatten(seqs, mid + 1, hi)

\* the function f on 1..n as a tuple whose elements are computed once
Tabulate(f, n) == SubSeq(f, 1, n)

\* e, e-1, ..., i
Descending(e, i) == [k \in 1..(e - i + 1) |-> e + 1 - k]

RECURSIVE Ends(_, _, _)
\* the ends of re.b from each of the positions es, in that order
EndsFrom(re, t, es) ==
  Let(Tabulate([k \in 1..Len(es) |-> Ends(re, t, es[k])], Len(es)),
      LAMBDA row : Flatten(row, 1, Len(es)))

Ends(re, t, i) ==
  CASE re.op = "eps" -> <<i>>
    [] re.op = "chr" -> IF i <= Len(t) /\ t[i] \in re.set THEN <<i + 1>> ELSE <<>>
    [] re.op = "cat" -> Let(Ends(re.a, t, i), LAMBDA es : EndsFrom(re.b, t, es))
    [] re.op = "alt" -> Ends(re.a, t, i) \o Ends(re.b, t, i)
    [] re.op = "star" ->
         Let(CHOOSE e \in i..(Len(t) + 1) :
               /\ \A j \in i..(e - 1) : Ends(re.a, t, j) = <<j + 1>>
               /\ e = Len(t) + 1 \/ Ends(re.a, t, e) # <<e + 1>>,
             LAMBDA stop :
               IF stop > i
               THEN Ends(re, t, stop) \o Descending(stop - 1, i)
               ELSE Let(SelectSeq(Ends(re.a, t, i), LAMBDA e : e > i),
                        LAMBDA es : EndsFrom(re, t, es) \o <<i>>))

\* A pattern is a sequence of parts; the capturing groups are parts.  The
\* first path is the match the backtracking matcher finds first: the end
\* position of every part, or <<>> when the pattern does not match at i.
RECURSIVE FirstPath(_, _, _, _)
\* the first of the positions es from which the parts from k on match
FirstOf(parts, k, t, es) ==
  Let(Tabulate([j \in 1..Len(es) |-> FirstPath(parts, k, t, es[j])], Len(es)),
      LAMBDA rest :
        LET good == {j \in 1..Len(es) : rest[j] # <<>>}
            j == CHOOSE x \in good : \A y \in good : x <= y
        IN IF good = {} THEN <<>> ELSE <<es[j]>> \o rest[j])

FirstPath(parts, k, t, i) ==
  Let(Ends(parts[k], t, i),
      LAMBDA es : IF k = Len(parts) THEN (IF es = <<>> THEN <<>> ELSE <<es[1]>>)
                  ELSE FirstOf(parts, k + 1, t, es))

\* re.finditer / re.findall: the non-overlapping matches, left to right.  The
\* scan resumes at the end of the previous match; paths[i] is the match at i.
RECURSIVE FindFrom(_, _, _)
FindFrom(t, paths, pos) ==
  LET starts == {i \in pos..Len(t) : paths[i] # <<>>}
  IN IF starts = {} THEN <<>>
     ELSE LET i == CHOOSE x \in starts : \A y \in starts : x <= y
          IN <<[start |-> i, path |-> paths[i]]>> \o FindFrom(t, paths, paths[i][Len(paths[i])])

FindIter(parts, t, pos) ==
  Let(Tabulate([i \in 1..Len(t) |-> FirstPath(parts, 1, t, i)], Len(t)),
      LAMBDA paths : FindFrom(t, paths, pos))

\* the text of part k of a match
Group(t, m, k) ==
  SubSeq(t, IF k = 1 THEN m.start ELSE m.path[k - 1], m.path[k] - 1)

MatchText(t, m) == SubSeq(t, m.start, m.path[Len(m.path)] - 1)

(***************************************************************************)
(* str helpers                                                             *)
(***************************************************************************)
LStrip(s) ==
  LET keep == {k \in 1..Len(s) : s[k] \notin Whitespace}
  IN IF keep = {} THEN <<>>
     ELSE SubSeq(s, CHOOSE k \in keep : \A j \in keep : k <= j, Len(s))

RStrip(s) ==
  LET keep == {k \in 1..Len(s) : s[k] \notin Whitespace}
  IN IF keep = {} THEN <<>>
     ELSE SubSeq(s, 1, CHOOSE k \in keep : \A j \in keep : k >= j)

Strip(s) == RStrip(LStrip(s))

Count(s, c) == Cardinality({i \in 1..Len(s) : s[i] = c})

\* sub in s
OccursAt(sub, s, i) == i + Len(sub) - 1 <= Len(s) /\ SubSeq(s, i, i + Len(sub) - 1) = sub
Contains(s, sub) == \E i \in 1..(Len(s) + 1) : OccursAt(sub, s, i)

(***************************************************************************)
(* reorganize_sam_tests_v2.py: extract_all_test_methods                    *)
(***************************************************************************)
NotBrace == NotIn({"{", "}"})

\* as BodyV2, the body running to the first closing brace
BodyV2_ToFirstClose == Star(NotIn({"}"}))

\* (?:[^{}]|\{(?:[^{}]|\{[^{}]*\})*\})*
BodyV2 ==
  Star(Alt(NotBrace,
           Cat(Lit("{"),
               Cat(Star(Alt(NotBrace, Cat(Lit("{"), Cat(Star(NotBrace), Lit("}"))))),
                   Lit("}")))))

\* @Test\s+fun\s+BT([^BT]+)BT\(\)([^{]*)\{(...)\}
TestPatternV2 ==
  << Cat(Lit("@Test"), Cat(Plus(Chr(Whitespace)),
       Cat(Lit("fun"), Cat(Plus(Chr(Whitespace)), Lit(BT))))),
     Plus(NotIn({BT})),
     LitSeq(<<BT, "(", ")">>),
     Star(NotIn({"{"})),
     Lit("{"),
     BodyV2,
     Lit("}") >>

\* as FullMethodV2, with the body stripped of the blanks around it
FullMethodV2_Stripped(test_name, signature, body) ==
  <<" ", " ", " ", " ", "@Test", "\n", " ", " ", " ", " ", "fun", " ", BT>>
    \o test_name \o <<BT, "(", ")">> \o signature \o <<" ", "{", "\n">> \o Strip(body) \o <<"}">>

FullMethodV2(test_name, signature, body) ==
  <<" ", " ", " ", " ", "@Test", "\n", " ", " ", " ", " ", "fun", " ", BT>>
    \o test_name \o <<BT, "(", ")">> \o signature \o <<" ", "{", "\n">> \o body \o <<"}">>

BlockOfMatchV2(t, m) ==
  LET test_name == Group(t, m, 2)
      signature == Strip(Group(t, m, 4))
      body == Group(t, m, 6)
  IN [name |-> test_name, signature |-> signature, body |-> body,
      full |-> FullMethodV2(test_name, signature, body)]

\* as extract_all_test_methods, the list of tests kept from one call to the
\* next and not started empty
extract_all_test_methods_Accumulating(content) ==
  Let(FindIter(TestPatternV2, content, 1),
      LAMBDA ms : (IF ret = <<>> THEN <<>> ELSE ret[Len(ret)])
                  \o [k \in 1..Len(ms) |-> BlockOfMatchV2(content, ms[k])])

extract_all_test_methods(content) ==
  Let(FindIter(TestPatternV2, content, 1),
      LAMBDA ms : [k \in 1..Len(ms) |-> BlockOfMatchV2(content, ms[k])])

(***************************************************************************)
(* reorganize_sam_tests_v2.py: identify_interface                          *)
(***************************************************************************)
None == <<>>

\* fake([A-Z][a-zA-Z]+)\s*[<{(]
FakePattern ==
  << Lit("fake"),
     Cat(Chr(Upper), Plus(Chr(Letters))),
     Cat(Star(Chr(Whitespace)), Chr({"<", "{", "("})) >>

\* as identify_interface, returning the last match instead of the first
identify_interface_Last(test_body) ==
  Let(FindIter(FakePattern, test_body, 1),
      LAMBDA matches :
        IF matches # <<>> THEN Group(test_body, matches[Len(matches)], 2) ELSE None)

\* as identify_interface, a body without marker taking the name of a bucket
\* filled before
identify_interface_Sticky(test_body) ==
  Let(FindIter(FakePattern, test_body, 1),
      LAMBDA matches :
        IF matches # <<>> THEN Group(test_body, matches[1], 2)
        ELSE IF DOMAIN tests_by_interface # {}
             THEN CHOOSE name \in DOMAIN tests_by_interface : TRUE
             ELSE None)

identify_interface(test_body) ==
  Let(FindIter(FakePattern, test_body, 1),
      LAMBDA matches : IF matches # <<>> THEN Group(test_body, matches[1], 2) ELSE None)

(***************************************************************************)
(* reorganize_sam_tests_v2.py: detect_needed_imports                       *)
(***************************************************************************)
RECURSIVE Join(_, _)
Join(sep, items) ==
  IF items = <<>> THEN <<>>
  ELSE IF Len(items) = 1 THEN items[1]
  ELSE items[1] \o sep \o Join(sep, Tail(items))

\* as detect_needed_imports, looking at the last of the methods only
detect_needed_imports_LastOnly(test_methods) ==
  Let(IF test_methods = <<>> THEN <<>> ELSE test_methods[Len(test_methods)],
      LAMBDA content :
        {"kotlin.test.Test", "kotlin.test.assertEquals"}
        \cup (IF Contains(content, <<"assertTrue">>) THEN {"kotlin.test.assertTrue"} ELSE {})
        \cup (IF Contains(content, <<"assertFalse">>) THEN {"kotlin.test.assertFalse"} ELSE {})
        \cup (IF Contains(content, <<"assertNull">>) THEN {"kotlin.test.assertNull"} ELSE {})
        \cup (IF Contains(content, <<"assertContentEquals">>)
              THEN {"kotlin.test.assertContentEquals"} ELSE {})
        \cup (IF Contains(content, <<"assertIs", "<">>) THEN {"kotlin.test.assertIs"} ELSE {})
        \cup (IF Contains(content, <<"runTest">>) THEN {"kotlinx.coroutines.test.runTest"} ELSE {}))

detect_needed_imports(test_methods) ==
  Let(Join(<<"\n">>, test_methods),
      LAMBDA content :
        {"kotlin.test.Test", "kotlin.test.assertEquals"}
        \cup (IF Contains(content, <<"assertTrue">>) THEN {"kotlin.test.assertTrue"} ELSE {})
        \cup (IF Contains(content, <<"assertFalse">>) THEN {"kotlin.test.assertFalse"} ELSE {})
        \cup (IF Contains(content, <<"assertNull">>) THEN {"kotlin.test.assertNull"} ELSE {})
        \cup (IF Contains(content, <<"assertContentEquals">>)
              THEN {"kotlin.test.assertContentEquals"} ELSE {})
        \cup (IF Contains(content, <<"assertIs", "<">>) THEN {"kotlin.test.assertIs"} ELSE {})
        \cup (IF Contains(content, <<"runTest">>)
                 \/ Contains(content, <<"=", " ", "runTest", " ", "{">>)
              THEN {"kotlinx.coroutines.test.runTest"} ELSE {}))

(***************************************************************************)
(* reorganize_sam_tests_v2.py: get_category_for_interface                  *)
(* The 63 entries of category_map are represented by two names of the      *)
(* model's alphabet; every other name misses the table.                    *)
(***************************************************************************)
category_map == (<<"A", "b">> :> "basic") @@ (<<"C", "d">> :> "generics")

\* as get_category_for_interface, with a category of the table as the default
get_category_for_interface_Default(interface_name) ==
  IF interface_name \in DOMAIN category_map THEN category_map[interface_name]
  ELSE "basic"

get_category_for_interface(interface_name) ==
  IF interface_name \in DOMAIN category_map THEN category_map[interface_name]
  ELSE "unknown"

(***************************************************************************)
(* sorted(): Python orders strings by code point                           *)
(***************************************************************************)
CodePoints ==
  [c \in Letters |->
     CASE c = "A" -> <<65>> [] c = "C" -> <<67>> [] c = "E" -> <<69>>
       [] c = "G" -> <<71>> [] c = "H" -> <<72>>
       [] c = "a" -> <<97>> [] c = "b" -> <<98>> [] c = "d" -> <<100>>
       [] c = "f" -> <<102>> [] c = "x" -> <<120>>
       [] c = "fun" -> <<102, 117, 110>>
       [] c = "fake" -> <<102, 97, 107, 101>>
       [] c = "inner" -> <<105, 110, 110, 101, 114>>
       [] c = "class" -> <<99, 108, 97, 115, 115>>
       [] c = "runTest" -> <<114, 117, 110, 84, 101, 115, 116>>
       [] OTHER -> <<97, 115, 115, 101, 114, 116>>
                     \o (CASE c = "assertTrue" -> <<84, 114, 117, 101>>
                           [] c = "assertFalse" -> <<70, 97, 108, 115, 101>>
                           [] c = "assertNull" -> <<78, 117, 108, 108>>
                           [] c = "assertIs" -> <<73, 115>>
                           [] OTHER -> <<67, 111, 110, 116, 101, 110, 116,
                                         69, 113, 117, 97, 108, 115>>)]

RECURSIVE CodesOf(_)
CodesOf(name) == IF name = <<>> THEN <<>> ELSE CodePoints[Head(name)] \o CodesOf(Tail(name))

RECURSIVE LexLess(_, _)
LexLess(a, b) ==
  IF b = <<>> THEN FALSE
  ELSE IF a = <<>> THEN TRUE
  ELSE IF Head(a) # Head(b) THEN Head(a) < Head(b)
  ELSE LexLess(Tail(a), Tail(b))

StrLess(a, b) == LexLess(CodesOf(a), CodesOf(b))

RECURSIVE Sorted(_)
Sorted(S) ==
  IF S = {} THEN <<>>
  ELSE Let(CHOOSE x \in S : \A y \in S \ {x} : StrLess(x, y),
           LAMBDA m : <<m>> \o Sorted(S \ {m}))

\* the eight import names in code point order
ImportsInOrder ==
  << "kotlin.test.Test", "kotlin.test.assertContentEquals", "kotlin.test.assertEquals",
     "kotlin.test.assertFalse", "kotlin.test.assertIs", "kotlin.test.assertNull",
     "kotlin.test.assertTrue", "kotlinx.coroutines.test.runTest" >>

SortedImports(imports) == SelectSeq(ImportsInOrder, LAMBDA i : i \in imports)

(***************************************************************************)
(* reorganize_sam_tests_v2.py: generate_test_file                          *)
(***************************************************************************)
COPYRIGHT_HEADER ==
  <<"// Copyright (C) 2025 Rodrigo Sicarelli", "\n", "// SPDX-License-Identifier: Apache-2.0">>

PackagePrefix == "com.rsicarelli.fakt.samples.singleModule.scenarios.sam_interfaces."

\* as ImportLines, without the first of the sorted imports
ImportLines_SkipFirst(imports) ==
  Let(SortedImports(imports),
      LAMBDA sorted : [k \in 1..(Len(sorted) - 1) |-> <<"import ", sorted[k + 1]>>])

\* as ImportLines, the imports in descending order
ImportLines_Reversed(imports) ==
  Let(SortedImports(imports),
      LAMBDA sorted : [k \in 1..Len(sorted) |-> <<"import ", sorted[Len(sorted) + 1 - k]>>])

ImportLines(imports) ==
  Let(SortedImports(imports),
      LAMBDA sorted : [k \in 1..Len(sorted) |-> <<"import ", sorted[k]>>])

RECURSIVE MethodLinesV2(_)
MethodLinesV2(test_methods) ==
  IF test_methods = <<>> THEN <<>>
  ELSE <<Head(test_methods), <<>>>> \o MethodLinesV2(Tail(test_methods))

generate_test_file(interface_name, category, test_methods) ==
  LET factory_name == <<"fake">> \o interface_name
      package == <<PackagePrefix, category>>
  IN Let(detect_needed_imports(test_methods),
         LAMBDA imports :
           Let(<< COPYRIGHT_HEADER,
                  <<"package ">> \o package,
                  <<>>,
                  <<"import ", PackagePrefix, category, ".">> \o interface_name,
                  <<"import ", PackagePrefix, category, ".">> \o factory_name >>
               \o ImportLines(imports)
               \o << <<>>,
                     <<"/**">>,
                     <<" * Tests for ">> \o interface_name \o <<" SAM interface.">>,
                     <<" */">>,
                     <<"class ">> \o interface_name \o <<"Test", " ", "{">>,
                     <<>> >>
               \o MethodLinesV2(test_methods)
               \o << <<"}">> >>,
               LAMBDA lines : Join(<<"\n">>, lines)))

(***************************************************************************)
(* reorganize_sam_tests.py: NESTED_CLASS_TO_INTERFACE                      *)
(* A class name is a sequence of tokens.  The table is represented by one  *)
(* class without nested classes, mapped to a list of (interface, category) *)
(* pairs as SAMBasicTest and SAMGenericClassTest are, and two nested       *)
(* classes mapped to one pair each; as with ListMapper, the interface of   *)
(* nested class G is also in the list of the class without nested classes. *)
(***************************************************************************)
SAMBasicTest == <<"SAMBasicTest">>
ClassG == <<"G">>
ClassH == <<"H">>

FlatClasses == {SAMBasicTest}

NESTED_CLASS_TO_INTERFACE ==
  (SAMBasicTest :> [list |-> TRUE,
                    pairs |-> << <<<<"A", "b">>, "basic">>, <<<<"C", "d">>, "generics">> >>])
  @@ (ClassG :> [list |-> FALSE, pair |-> <<<<"A", "b">>, "basic">>])
  @@ (ClassH :> [list |-> FALSE, pair |-> <<<<"H", "b">>, "collections">>])
  @@ (<<"E">> :> [list |-> FALSE, pair |-> <<<<"C", "d">>, "generics">>])

(***************************************************************************)
(* reorganize_sam_tests.py: extract_test_methods                           *)
(***************************************************************************)
\* (@Test\s+fun\s+BT[^BT]+BT\(\)[^{]*\{(?:[^{}]|\{[^{}]*\})*\})
MethodPatternV1 ==
  << Cat(Lit("@Test"), Cat(Plus(Chr(Whitespace)),
       Cat(Lit("fun"), Cat(Plus(Chr(Whitespace)),
         Cat(Lit(BT), Cat(Plus(NotIn({BT})),
           Cat(LitSeq(<<BT, "(", ")">>), Cat(Star(NotIn({"{"})),
             Cat(Lit("{"),
               Cat(Star(Alt(NotBrace, Cat(Lit("{"), Cat(Star(NotBrace), Lit("}"))))),
                   Lit("}"))))))))))) >>

\* as NestedPattern, letters allowed between "class" and the class name
NestedPattern_AnyPrefix(class_name) ==
  << Cat(Lit("inner"), Cat(Plus(Chr(Whitespace)),
       Cat(Lit("class"), Cat(Plus(Chr(Whitespace)),
         Cat(Star(Chr(Letters)),
           Cat(LitSeq(class_name), Cat(Star(Chr(Whitespace)),
             Cat(Lit("{"), Cat(Star(NotBrace),
               Cat(Star(Cat(Lit("{"), Cat(Star(NotBrace),
                          Cat(Star(Cat(Lit("{"), Cat(Star(NotBrace), Lit("}")))),
                              Cat(Star(NotBrace), Lit("}")))))),
                   Cat(Star(NotBrace), Lit("}")))))))))))) >>

\* (inner\s+class\s+{class_name}\s*\{[^{}]*(?:\{[^{}]*(?:\{[^{}]*\})*[^{}]*\})*[^{}]*\})
NestedPattern(class_name) ==
  << Cat(Lit("inner"), Cat(Plus(Chr(Whitespace)),
       Cat(Lit("class"), Cat(Plus(Chr(Whitespace)),
         Cat(LitSeq(class_name), Cat(Star(Chr(Whitespace)),
           Cat(Lit("{"), Cat(Star(NotBrace),
             Cat(Star(Cat(Lit("{"), Cat(Star(NotBrace),
                        Cat(Star(Cat(Lit("{"), Cat(Star(NotBrace), Lit("}")))),
                            Cat(Star(NotBrace), Lit("}")))))),
                 Cat(Star(NotBrace), Lit("}"))))))))))) >>

\* re.findall with one group: the texts of the matches
FindAll(parts, t) ==
  LET ms == FindIter(parts, t, 1) IN [k \in 1..Len(ms) |-> MatchText(t, ms[k])]

\* re.search: the first match, or <<>>
Search(parts, t) == LET ms == FindIter(parts, t, 1) IN IF ms = <<>> THEN <<>> ELSE <<ms[1]>>

extract_test_methods(file_content, class_name) ==
  IF class_name \in FlatClasses
  THEN FindAll(MethodPatternV1, file_content)
  ELSE LET nested_match == Search(NestedPattern(class_name), file_content)
       IN IF nested_match = <<>> THEN <<>>
          ELSE FindAll(MethodPatternV1, MatchText(file_content, nested_match[1]))

(***************************************************************************)
(* reorganize_sam_tests.py: group_tests_by_interface                       *)
(* A dict keeps the order in which its keys were inserted.                 *)
(***************************************************************************)
Empty == [x \in {} |-> <<>>]
EmptyDict == [keys |-> <<>>, val |-> Empty]

Put(f, k, v) == [x \in DOMAIN f \cup {k} |-> IF x = k THEN v ELSE f[x]]

\* d.setdefault(k, []).extend(items)
SetDefaultExtend(d, k, items) ==
  IF k \in DOMAIN d.val THEN [d EXCEPT !.val[k] = @ \o items]
  ELSE [keys |-> Append(d.keys, k), val |-> Put(d.val, k, items)]

\* the methods that mention the interface or its factory
InterfaceTests(all_methods, interface_name) ==
  SelectSeq(all_methods,
            LAMBDA method : \/ Contains(method, <<"fake">> \o interface_name)
                            \/ Contains(method, interface_name))

\* the indices into all_methods of InterfaceTests
InterfaceTestIdx(all_methods, interface_name) ==
  SelectSeq([k \in 1..Len(all_methods) |-> k],
            LAMBDA k : \/ Contains(all_methods[k], <<"fake">> \o interface_name)
                       \/ Contains(all_methods[k], interface_name))

Provenance(file, class_name, idx) ==
  [j \in 1..Len(idx) |-> [file |-> file, class |-> class_name, k |-> idx[j]]]

\* as FlatLoopV1, a method going to the first interface of the list it
\* mentions and to no later one
RECURSIVE FlatLoopV1_FirstOnly(_, _, _, _, _, _)
FlatLoopV1_FirstOnly(file, class_name, all_methods, pairs, j, acc) ==
  IF j > Len(pairs) THEN acc
  ELSE LET interface_name == pairs[j][1]
           category == pairs[j][2]
           idx == SelectSeq(InterfaceTestIdx(all_methods, interface_name),
                            LAMBDA k : \A i \in 1..(j - 1) :
                                         ~Contains(all_methods[k], pairs[i][1]))
           key == <<interface_name, category>>
       IN FlatLoopV1_FirstOnly(file, class_name, all_methods, pairs, j + 1,
            IF idx # <<>>
            THEN [acc EXCEPT
                    !.grouped = SetDefaultExtend(@, key, [n \in 1..Len(idx) |-> all_methods[idx[n]]]),
                    !.org = SetDefaultExtend(@, key, Provenance(file, class_name, idx))]
            ELSE acc)

RECURSIVE FlatLoopV1(_, _, _, _, _, _)
FlatLoopV1(file, class_name, all_methods, pairs, j, acc) ==
  IF j > Len(pairs) THEN acc
  ELSE LET interface_name == pairs[j][1]
           category == pairs[j][2]
           interface_tests == InterfaceTests(all_methods, interface_name)
           key == <<interface_name, category>>
       IN FlatLoopV1(file, class_name, all_methods, pairs, j + 1,
            IF interface_tests # <<>>
            THEN [acc EXCEPT
                    !.grouped = SetDefaultExtend(@, key, interface_tests),
                    !.org = SetDefaultExtend(@, key,
                              Provenance(file, class_name,
                                         InterfaceTestIdx(all_methods, interface_name)))]
            ELSE acc)

\* as GroupStepV1, distributing the methods of a nested class by the names
\* they mention, as for a class without nested classes
GroupStepV1_ByMention(file, class_name, mapping, methods, acc) ==
  FlatLoopV1(file, class_name, methods,
             IF mapping.list THEN mapping.pairs
             ELSE NESTED_CLASS_TO_INTERFACE[SAMBasicTest].pairs,
             1, [acc EXCEPT !.ext = Append(@, [class |-> class_name, methods |-> methods])])

\* the body of the loop over class_mappings.items(), methods being what
\* extract_test_methods returned for the class
GroupStepV1(file, class_name, mapping, methods, acc) ==
  LET seen == [acc EXCEPT !.ext = Append(@, [class |-> class_name, methods |-> methods])]
  IN IF mapping.list
     THEN FlatLoopV1(file, class_name, methods, mapping.pairs, 1, seen)
     ELSE IF methods # <<>>
     THEN [seen EXCEPT
             !.grouped = SetDefaultExtend(@, mapping.pair, methods),
             !.org = SetDefaultExtend(@, mapping.pair,
                       Provenance(file, class_name, [k \in 1..Len(methods) |-> k]))]
     ELSE seen

RECURSIVE GroupLoopV1(_, _, _, _, _)
GroupLoopV1(file, content, class_names, i, acc) ==
  IF i > Len(class_names) THEN acc
  ELSE GroupLoopV1(file, content, class_names, i + 1,
         GroupStepV1(file, class_names[i], NESTED_CLASS_TO_INTERFACE[class_names[i]],
                     extract_test_methods(content, class_names[i]), acc))

\* returns the dict grouped_tests; org and ext record where the entries came from
group_tests_by_interface(file, content, class_names) ==
  GroupLoopV1(file, content, class_names, 1,
              [grouped |-> EmptyDict, org |-> EmptyDict, ext |-> <<>>])

(***************************************************************************)
(* reorganize_sam_tests.py: detect_needed_imports, generate_test_file      *)
(***************************************************************************)
detect_needed_imports_v1(test_methods) ==
  LET content == Join(<<"\n">>, test_methods)
  IN {"kotlin.test.Test", "kotlin.test.assertEquals"}
     \cup (IF Contains(content, <<"assertTrue">>) THEN {"kotlin.test.assertTrue"} ELSE {})
     \cup (IF Contains(content, <<"assertFalse">>) THEN {"kotlin.test.assertFalse"} ELSE {})
     \cup (IF Contains(content, <<"assertNull">>) THEN {"kotlin.test.assertNull"} ELSE {})
     \cup (IF Contains(content, <<"assertContentEquals">>)
           THEN {"kotlin.test.assertContentEquals"} ELSE {})
     \cup (IF Contains(content, <<"assertIs">>) THEN {"kotlin.test.assertIs"} ELSE {})
     \cup (IF Contains(content, <<"runTest">>)
           THEN {"kotlinx.coroutines.test.runTest"} ELSE {})

\* str.split("\n"): the pieces between the line breaks
SplitLines(s) ==
  LET brk == <<0>> \o SelectSeq([k \in 1..Len(s) |-> k], LAMBDA k : s[k] = "\n")
              \o <<Len(s) + 1>>
  IN [k \in 1..(Len(brk) - 1) |-> SubSeq(s, brk[k] + 1, brk[k + 1] - 1)]

Indent == <<" ", " ", " ", " ">>

\* "\n".join("    " + line for line in method.split("\n"))
Indented(method) ==
  LET ls == SplitLines(method)
  IN Join(<<"\n">>, [k \in 1..Len(ls) |-> Indent \o ls[k]])

RECURSIVE MethodsTextV1(_)
MethodsTextV1(test_methods) ==
  IF test_methods = <<>> THEN <<>>
  ELSE <<"\n">> \o Indented(Head(test_methods)) \o <<"\n">> \o MethodsTextV1(Tail(test_methods))

generate_test_file_v1(interface_name, category, test_methods) ==
  LET factory_name == <<"fake">> \o interface_name
      package == <<PackagePrefix, category>>
      imports == detect_needed_imports_v1(test_methods)
      import_lines ==
        << <<"package ">> \o package,
           <<>>,
           <<"import ", PackagePrefix, category, ".">> \o interface_name,
           <<"import ", PackagePrefix, category, ".">> \o factory_name >>
        \o ImportLines(imports)
      test_class ==
        <<"\n", "/**", "\n", " * Tests for ">> \o interface_name
        \o <<" SAM interface.", "\n", " */", "\n", "class ">> \o interface_name
        \o <<"Test", " ", "{", "\n">>
        \o MethodsTextV1(test_methods)
        \o <<"}", "\n">>
  IN COPYRIGHT_HEADER \o <<"\n">> \o Join(<<"\n">>, import_lines) \o <<"\n">> \o test_class

(***************************************************************************)
(* Source documents of a run.  A document is a concatenation of fragments; *)
(* a run holds at most MaxUnits fragments over NumDocs documents.          *)
(***************************************************************************)
NumDocs == 2
MaxUnits == 3

Unit(name, sig, body) ==
  <<"@Test", "\n", "fun", " ", BT>> \o name \o <<BT, "(", ")">> \o sig \o <<"{">> \o body \o <<"}">>

Grouping(class_name, inner) ==
  <<"inner", " ", "class", " ">> \o class_name \o <<" ", "{", "\n">> \o inner \o <<"}">>

FragmentsV2 ==
  << \* nested class G with a unit of artifact Ab, whose category is known
     Grouping(ClassG, Unit(<<"a">>, <<" ">>, <<"fake", "A", "b", "(">>) \o <<"\n">>),
     \* nested class H with a unit of Ab: a body of several lines with a nested
     \* block and a later marker of Cd
     Grouping(ClassH, Unit(<<"b">>, <<>>,
                           <<"\n", "fake", "A", "b", " ", "{", "fake", "C", "d", "(", "}", "\n">>)
                      \o <<"\n">>),
     \* a unit of artifact Cd, whose category is known
     Unit(<<"d">>, <<>>, <<"assertIs", "<", "fake", "C", "d", "<">>),
     \* a unit of artifact Ef, which the category table does not hold
     Unit(<<"f">>, <<>>, <<"fake", "E", "f", "(">>),
     \* a unit without a factory marker, with a brace in its name
     Unit(<<"x", "{">>, <<>>, <<"x">>),
     \* a unit whose body is never closed
     <<"@Test", "\n", "fun", " ", BT, "a", BT, "(", ")", "{", "fake", "A", "b", "(">>,
     \* a unit of artifact Ab with a brace in its name
     Unit(<<"b", "{">>, <<>>, <<"fake", "A", "b", "(">>),
     \* a unit of artifact Ab whose body nests blocks three deep
     Unit(<<"a">>, <<>>, <<"fake", "A", "b", "(", "{", "{", "{", "}", "}", "}">>) >>

FragmentsV1 ==
  << \* nested class G with one unit, whose body names the factory of Cd
     Grouping(ClassG, Unit(<<"a">>, <<" ">>, <<"x", "{", "fake", "C", "d", "(", "}">>) \o <<"\n">>),
     \* nested class G with two units
     Grouping(ClassG, Unit(<<"a">>, <<>>, <<"fake", "A", "b", "(">>) \o <<"\n">>
                      \o Unit(<<"b">>, <<>>, <<"x">>) \o <<"\n">>),
     \* nested class H with one unit of two lines
     Grouping(ClassH, Unit(<<"d">>, <<>>, <<"\n", "fake", "H", "b", "<">>) \o <<"\n">>),
     \* nested class G that is never closed
     <<"inner", " ", "class", " ">> \o ClassG \o <<" ", "{", "\n">>
       \o Unit(<<"f">>, <<>>, <<"fake", "A", "b", "(">>),
     \* units outside a nested class: of Ab, of Cd and Ab, of neither
     Unit(<<"a">>, <<>>, <<"fake", "A", "b", "(">>),
     Unit(<<"d">>, <<>>, <<"fake", "C", "d", "(", "A", "b">>),
     Unit(<<"x">>, <<>>, <<"x">>) >>

RECURSIVE ConcatAll(_, _)
ConcatAll(frags, idx) ==
  IF idx = <<>> THEN <<>> ELSE frags[Head(idx)] \o ConcatAll(frags, Tail(idx))

FragSeqs(nfrags, n) == UNION {[1..k -> 1..nfrags] : k \in 0..n}

\* the lists of n documents (each a sequence of fragment numbers) of at most
\* budget fragments together
RECURSIVE DocLists(_, _, _)
DocLists(nfrags, n, budget) ==
  IF n = 0 THEN {<<>>}
  ELSE UNION {{<<d>> \o rest : rest \in DocLists(nfrags, n - 1, budget - Len(d))} :
                d \in FragSeqs(nfrags, budget)}

AllConsolidatedFiles ==
  << "SAMBasicTest.kt", "SAMGenericClassTest.kt", "SAMCollectionsTest.kt",
     "SAMStdlibTypesTest.kt", "SAMHigherOrderTest.kt", "SAMVarianceTest.kt",
     "SAMEdgeCasesTest.kt", "SAMRemainingTest.kt" >>

\* main: consolidated_files, cut to the first NumDocs names; order is the
\* identity for the list as main writes it
consolidated_files == [k \in 1..NumDocs |-> AllConsolidatedFiles[order[k]]]

\* reorganize_sam_tests.py, main: consolidated_files, file name -> class names; one
\* file of a class without nested classes, then files of nested classes
ClassE == <<"E">>
ConsolidatedV1(i) ==
  [file |-> AllConsolidatedFiles[i],
   classes |-> IF i = 1 THEN <<SAMBasicTest>>
               ELSE IF i = 2 THEN <<ClassG, ClassH>>
               ELSE <<ClassE>>]

SourcePath(filename) == <<filename>>
\* as DestPath, the destination placed at the path of the first source
DestPath_InPlace(category, interface_name) == SourcePath(AllConsolidatedFiles[1])

DestPath(category, interface_name) == <<category, "/">> \o interface_name \o <<"Test.kt">>

NameExcerptLen == 60

\* as SetDefaultAppend, replacing the list: d[k] = [v]
SetDefaultAppend_Overwrite(d, k, v) == Put(d, k, <<v>>)

\* as SetDefaultAppend, inserting at the front: d.setdefault(k, []).insert(0, v)
SetDefaultAppend_Front(d, k, v) == Put(d, k, IF k \in DOMAIN d THEN <<v>> \o d[k] ELSE <<v>>)

\* as SetDefaultAppend, a bucket keeping only its first entry
SetDefaultAppend_First(d, k, v) == IF k \in DOMAIN d THEN d ELSE Put(d, k, <<v>>)

\* dict.setdefault(k, []).append(v)
SetDefaultAppend(d, k, v) == Put(d, k, IF k \in DOMAIN d THEN Append(d[k], v) ELSE <<v>>)

\* as write_text, appending to what a file that exists holds
write_text_Append(fs, path, text) ==
  Put(fs, path, IF path \in DOMAIN fs THEN fs[path] \o text ELSE text)

\* Path.write_text: the file holds the text, whatever it held before
write_text(fs, path, text) == Put(fs, path, text)

SourceFiles(texts, present) ==
  [p \in {SourcePath(AllConsolidatedFiles[i]) : i \in present} |->
     LET i == CHOOSE j \in present : SourcePath(AllConsolidatedFiles[j]) = p
     IN texts[i]]

Init ==
  /\ \E dl \in DocLists(Len(FragmentsV2), NumDocs, MaxUnits) :
       \E present \in SUBSET (1..NumDocs) :
         /\ \A i \in 1..NumDocs : i \notin present => dl[i] = <<>>
         /\ files = SourceFiles([i \in 1..NumDocs |-> ConcatAll(FragmentsV2, dl[i])], present)
  /\ pc = "read"
  /\ fileIdx = 1
  /\ tests_by_interface = Empty
  /\ all_grouped_tests = EmptyDict
  /\ todo = <<>>
  /\ created_count = 0
  /\ out = <<>>
  /\ extracted = [i \in 1..NumDocs |-> <<>>]
  /\ origin = Empty
  /\ order = [k \in 1..NumDocs |-> k]
  /\ run = 1
  /\ first = Empty
  /\ arg = <<>>
  /\ ret = None

(***************************************************************************)
(* reorganize_sam_tests_v2.py: main                                        *)
(***************************************************************************)
\* as ClassifyStepV2, a block without marker emptying the buckets filled so far
ClassifyStepV2_Reset(test, k, interface_name, acc) ==
  IF interface_name # None
  THEN [acc EXCEPT
          !.tbi = SetDefaultAppend(@, interface_name, test.full),
          !.org = SetDefaultAppend(@, interface_name, <<acc.file, k>>)]
  ELSE [acc EXCEPT
          !.tbi = Empty,
          !.org = Empty,
          !.out = Append(@, [kind |-> "unidentified", file |-> acc.file, k |-> k,
                             name |-> test.name])]

\* as ClassifyStepV2, a block without marker passed over without a warning
ClassifyStepV2_Silent(test, k, interface_name, acc) ==
  IF interface_name # None
  THEN [acc EXCEPT
          !.tbi = SetDefaultAppend(@, interface_name, test.full),
          !.org = SetDefaultAppend(@, interface_name, <<acc.file, k>>)]
  ELSE acc

\* the body of the loop over test_methods: append to the bucket, or warn
ClassifyStepV2(test, k, interface_name, acc) ==
  IF interface_name # None
  THEN [acc EXCEPT
          !.tbi = SetDefaultAppend(@, interface_name, test.full),
          !.org = SetDefaultAppend(@, interface_name, <<acc.file, k>>)]
  ELSE [acc EXCEPT
          !.out = Append(@, [kind |-> "unidentified", file |-> acc.file, k |-> k,
                             name |-> SubSeq(test.name, 1,
                                IF Len(test.name) < NameExcerptLen
                                THEN Len(test.name) ELSE NameExcerptLen)])]

\* for test in test_methods: identify, then append or warn
RECURSIVE ClassifyLoopV2(_, _, _)
ClassifyLoopV2(test_methods, k, acc) ==
  IF k > Len(test_methods) THEN acc
  ELSE Let(ClassifyStepV2(test_methods[k], k, identify_interface(test_methods[k].body), acc),
           LAMBDA next : ClassifyLoopV2(test_methods, k + 1, next))

V2SkipMissing ==
  /\ pc = "read"
  /\ fileIdx <= Len(consolidated_files)
  /\ SourcePath(consolidated_files[fileIdx]) \notin DOMAIN files
  /\ out' = Append(out, [kind |-> "skipping", file |-> fileIdx])
  /\ fileIdx' = fileIdx + 1
  /\ UNCHANGED <<order, run, first, arg, ret, files, pc, tests_by_interface, all_grouped_tests, todo, created_count, extracted, origin>>

V2ProcessFile ==
  /\ pc = "read"
  /\ fileIdx <= Len(consolidated_files)
  /\ SourcePath(consolidated_files[fileIdx]) \in DOMAIN files
  /\ \E test_methods \in {extract_all_test_methods(files[SourcePath(consolidated_files[fileIdx])])} :
       \E r \in {ClassifyLoopV2(test_methods, 1,
                    [tbi |-> tests_by_interface, org |-> origin, file |-> fileIdx,
                     out |-> Append(out, [kind |-> "reading", file |-> fileIdx])])} :
         /\ tests_by_interface' = r.tbi
         /\ origin' = r.org
         /\ out' = r.out
         /\ extracted' = [extracted EXCEPT ![fileIdx] = test_methods]
  /\ fileIdx' = fileIdx + 1
  /\ UNCHANGED <<order, run, first, arg, ret, files, pc, all_grouped_tests, todo, created_count>>

\* the loop over the files is over: sorted(tests_by_interface.items())
V2Extracted ==
  /\ pc = "read"
  /\ fileIdx > Len(consolidated_files)
  /\ out' = Append(out, [kind |-> "extracted", n |-> Cardinality(DOMAIN tests_by_interface)])
  /\ todo' = Sorted(DOMAIN tests_by_interface)
  /\ pc' = "generate"
  /\ UNCHANGED <<order, run, first, arg, ret, files, fileIdx, tests_by_interface, all_grouped_tests, created_count, extracted, origin>>

V2SkipUnknown ==
  /\ pc = "generate"
  /\ todo # <<>>
  /\ get_category_for_interface(Head(todo)) = "unknown"
  /\ out' = Append(out, [kind |-> "unknown_category", interface |-> Head(todo)])
  /\ todo' = Tail(todo)
  /\ UNCHANGED <<order, run, first, arg, ret, files, pc, fileIdx, tests_by_interface, all_grouped_tests, created_count, extracted, origin>>

V2CreateFile ==
  /\ pc = "generate"
  /\ todo # <<>>
  /\ LET interface_name == Head(todo)
         test_methods == tests_by_interface[interface_name]
         category == get_category_for_interface(interface_name)
     IN /\ category # "unknown"
        /\ files' = write_text(files, DestPath(category, interface_name),
                               generate_test_file(interface_name, category, test_methods))
        /\ out' = Append(out, [kind |-> "created", category |-> category,
                               interface |-> interface_name, n |-> Len(test_methods)])
  /\ created_count' = created_count + 1
  /\ todo' = Tail(todo)
  /\ UNCHANGED <<order, run, first, arg, ret, pc, fileIdx, tests_by_interface, all_grouped_tests, extracted, origin>>

RECURSIVE SumLen(_, _)
SumLen(d, keys) ==
  IF keys = {} THEN 0
  ELSE LET k == CHOOSE x \in keys : TRUE IN Len(d[k]) + SumLen(d, keys \ {k})

V2Summary ==
  /\ pc = "generate"
  /\ todo = <<>>
  /\ out' = Append(out, [kind |-> "summary", created |-> created_count,
                         total |-> SumLen(tests_by_interface, DOMAIN tests_by_interface)])
  /\ pc' = "done"
  /\ UNCHANGED <<order, run, first, arg, ret, files, fileIdx, tests_by_interface, all_grouped_tests, todo, created_count, extracted, origin>>

Next ==
  \/ V2SkipMissing
  \/ V2ProcessFile
  \/ V2Extracted
  \/ V2SkipUnknown
  \/ V2CreateFile
  \/ V2Summary

Spec == Init /\ [][Next]_vars

\* main runs from its first statement to its last without waiting for anything
SpecLive == Spec /\ WF_vars(Next)

\* main is called a second time on the file system the first run left: its
\* local variables start afresh
V2RunAgain ==
  /\ pc = "done"
  /\ run = 1
  /\ run' = 2
  /\ first' = files
  /\ pc' = "read"
  /\ fileIdx' = 1
  /\ tests_by_interface' = Empty
  /\ todo' = <<>>
  /\ created_count' = 0
  /\ out' = <<>>
  /\ extracted' = [i \in 1..NumDocs |-> <<>>]
  /\ origin' = Empty
  /\ UNCHANGED <<order, arg, ret, files, all_grouped_tests>>

NextRerun ==
  \/ V2SkipMissing
  \/ V2ProcessFile
  \/ V2Extracted
  \/ V2SkipUnknown
  \/ V2CreateFile
  \/ V2Summary
  \/ V2RunAgain

SpecRerun == Init /\ [][NextRerun]_vars

\* the orders in which the list of main can name the documents
Orders ==
  {p \in [1..NumDocs -> 1..NumDocs] : \A i, j \in 1..NumDocs : p[i] = p[j] => i = j}

\* main with its list of documents in any order
InitOrder ==
  /\ \E dl \in DocLists(Len(FragmentsV2), NumDocs, MaxUnits) :
       \E present \in SUBSET (1..NumDocs) :
         /\ \A i \in 1..NumDocs : i \notin present => dl[i] = <<>>
         /\ files = SourceFiles([i \in 1..NumDocs |-> ConcatAll(FragmentsV2, dl[i])], present)
  /\ order \in Orders
  /\ pc = "read"
  /\ fileIdx = 1
  /\ tests_by_interface = Empty
  /\ all_grouped_tests = EmptyDict
  /\ todo = <<>>
  /\ created_count = 0
  /\ out = <<>>
  /\ extracted = [i \in 1..NumDocs |-> <<>>]
  /\ origin = Empty
  /\ run = 1
  /\ first = Empty
  /\ arg = <<>>
  /\ ret = None

SpecOrder == InitOrder /\ [][Next]_vars
(***************************************************************************)
(* reorganize_sam_tests.py: main                                           *)
(***************************************************************************)
InitV1 ==
  /\ \E dl \in DocLists(Len(FragmentsV1), NumDocs, MaxUnits) :
       \E present \in SUBSET (1..NumDocs) :
         /\ \A i \in 1..NumDocs : i \notin present => dl[i] = <<>>
         /\ files = SourceFiles([i \in 1..NumDocs |-> ConcatAll(FragmentsV1, dl[i])], present)
  /\ pc = "read"
  /\ fileIdx = 1
  /\ tests_by_interface = Empty
  /\ all_grouped_tests = EmptyDict
  /\ todo = <<>>
  /\ created_count = 0
  /\ out = <<>>
  /\ extracted = [i \in 1..NumDocs |-> <<>>]
  /\ origin = EmptyDict
  /\ order = [k \in 1..NumDocs |-> k]
  /\ run = 1
  /\ first = Empty
  /\ arg = <<>>
  /\ ret = None

\* for key, tests in grouped.items(): all_grouped_tests.setdefault(key, []).extend(tests)
RECURSIVE MergeV1(_, _, _)
MergeV1(all, grouped, j) ==
  IF j > Len(grouped.keys) THEN all
  ELSE MergeV1(SetDefaultExtend(all, grouped.keys[j], grouped.val[grouped.keys[j]]),
               grouped, j + 1)

V1SkipMissing ==
  /\ pc = "read"
  /\ fileIdx <= NumDocs
  /\ SourcePath(ConsolidatedV1(fileIdx).file) \notin DOMAIN files
  /\ out' = Append(out, [kind |-> "skipping", file |-> fileIdx])
  /\ fileIdx' = fileIdx + 1
  /\ UNCHANGED <<order, run, first, arg, ret, files, pc, tests_by_interface, all_grouped_tests, todo, created_count,
                 extracted, origin>>

V1ProcessFile ==
  /\ pc = "read"
  /\ fileIdx <= NumDocs
  /\ SourcePath(ConsolidatedV1(fileIdx).file) \in DOMAIN files
  /\ LET class_names == SelectSeq(ConsolidatedV1(fileIdx).classes,
                                  LAMBDA name : name \in DOMAIN NESTED_CLASS_TO_INTERFACE)
         r == group_tests_by_interface(fileIdx, files[SourcePath(ConsolidatedV1(fileIdx).file)],
                                       class_names)
     IN /\ all_grouped_tests' = MergeV1(all_grouped_tests, r.grouped, 1)
        /\ origin' = MergeV1(origin, r.org, 1)
        /\ extracted' = [extracted EXCEPT ![fileIdx] = r.ext]
  /\ out' = Append(out, [kind |-> "reading", file |-> fileIdx])
  /\ fileIdx' = fileIdx + 1
  /\ UNCHANGED <<order, run, first, arg, ret, files, pc, tests_by_interface, todo, created_count>>

V1Extracted ==
  /\ pc = "read"
  /\ fileIdx > NumDocs
  /\ out' = Append(out, [kind |-> "extracted", n |-> Len(all_grouped_tests.keys)])
  /\ todo' = all_grouped_tests.keys
  /\ pc' = "generate"
  /\ UNCHANGED <<order, run, first, arg, ret, files, fileIdx, tests_by_interface, all_grouped_tests, created_count,
                 extracted, origin>>

V1CreateFile ==
  /\ pc = "generate"
  /\ todo # <<>>
  /\ LET interface_name == Head(todo)[1]
         category == Head(todo)[2]
         test_methods == all_grouped_tests.val[Head(todo)]
     IN /\ files' = write_text(files, DestPath(category, interface_name),
                               generate_test_file_v1(interface_name, category, test_methods))
        /\ out' = Append(out, [kind |-> "created", category |-> category,
                               interface |-> interface_name, n |-> Len(test_methods)])
  /\ created_count' = created_count + 1
  /\ todo' = Tail(todo)
  /\ UNCHANGED <<order, run, first, arg, ret, pc, fileIdx, tests_by_interface, all_grouped_tests, extracted, origin>>

V1Summary ==
  /\ pc = "generate"
  /\ todo = <<>>
  /\ out' = Append(out, [kind |-> "summary", created |-> created_count,
                         total |-> SumLen(all_grouped_tests.val, DOMAIN all_grouped_tests.val)])
  /\ pc' = "done"
  /\ UNCHANGED <<order, run, first, arg, ret, files, fileIdx, tests_by_interface, all_grouped_tests, todo, created_count,
                 extracted, origin>>

NextV1 ==
  \/ V1SkipMissing
  \/ V1ProcessFile
  \/ V1Extracted
  \/ V1CreateFile
  \/ V1Summary

SpecV1 == InitV1 /\ [][NextV1]_vars

(***************************************************************************)
(* identify_interface called on its own.  A body is a concatenation of at  *)
(* most MaxPieces pieces: factory names with and without an opening        *)
(* delimiter after them, a name of one letter, blanks and other text.      *)
(***************************************************************************)
MaxPieces == 4

BodyPieces ==
  << <<"fake", "A", "b">>, <<"fake", "C", "d">>, <<"fake", "A">>,
     <<"(">>, <<"<">>, <<" ">>, <<"x">> >>

InitIdentify ==
  /\ \E idx \in FragSeqs(Len(BodyPieces), MaxPieces) : arg = ConcatAll(BodyPieces, idx)
  /\ ret = None
  /\ pc = "call"
  /\ files = Empty
  /\ fileIdx = 1
  /\ tests_by_interface = Empty
  /\ all_grouped_tests = EmptyDict
  /\ todo = <<>>
  /\ created_count = 0
  /\ out = <<>>
  /\ extracted = <<>>
  /\ origin = Empty
  /\ order = [k \in 1..NumDocs |-> k]
  /\ run = 1
  /\ first = Empty

IdentifyCall ==
  /\ pc = "call"
  /\ ret' = identify_interface(arg)
  /\ pc' = "returned"
  /\ UNCHANGED <<order, run, first, arg, files, fileIdx, tests_by_interface, all_grouped_tests, todo, created_count,
                 out, extracted, origin>>

NextIdentify == IdentifyCall

SpecIdentify == InitIdentify /\ [][NextIdentify]_vars

(***************************************************************************)
(* detect_needed_imports and generate_test_file called on their own.  The  *)
(* methods are full method texts as main builds them; their bodies and the *)
(* body of one more method are concatenations of at most MaxTokens pieces  *)
(* together: the names the rules of detect_needed_imports look for, "<",   *)
(* and other text.                                                         *)
(***************************************************************************)
MaxTokens == 3

TokenPieces ==
  << <<"assertTrue">>, <<"assertFalse">>, <<"assertNull">>, <<"assertContentEquals">>,
     <<"assertIs">>, <<"<">>, <<"runTest">>, <<"x">> >>

\* the full method text main passes for a block of that body
MethodOf(body) == FullMethodV2(<<"a">>, <<>>, body)

InitSynthesize ==
  /\ \E dl \in DocLists(Len(TokenPieces), 3, MaxTokens) :
       \E interface_name \in DOMAIN category_map :
         arg = [interface_name |-> interface_name,
                category |-> category_map[interface_name],
                test_methods |-> [k \in 1..Len(SelectSeq(SubSeq(dl, 1, 2), LAMBDA d : d # <<>>)) |->
                                   MethodOf(ConcatAll(TokenPieces,
                                     SelectSeq(SubSeq(dl, 1, 2), LAMBDA d : d # <<>>)[k]))],
                more |-> MethodOf(ConcatAll(TokenPieces, dl[3]))]
  /\ ret = <<>>
  /\ pc = "call"
  /\ files = Empty
  /\ fileIdx = 1
  /\ tests_by_interface = Empty
  /\ all_grouped_tests = EmptyDict
  /\ todo = <<>>
  /\ created_count = 0
  /\ out = <<>>
  /\ extracted = <<>>
  /\ origin = Empty
  /\ order = [k \in 1..NumDocs |-> k]
  /\ run = 1
  /\ first = Empty

\* detect_needed_imports(test_methods); ret collects what the calls returned
DetectCall ==
  /\ pc \in {"call", "again"}
  /\ ret' = Append(ret, detect_needed_imports(arg.test_methods))
  /\ pc' = IF pc = "call" THEN "detected" ELSE "detected again"
  /\ UNCHANGED <<order, run, first, arg, files, fileIdx, tests_by_interface, all_grouped_tests,
                 todo, created_count, out, extracted, origin>>

\* one more method text is added to the list
AddText ==
  /\ pc = "detected"
  /\ arg' = [arg EXCEPT !.test_methods = Append(@, arg.more)]
  /\ pc' = "again"
  /\ UNCHANGED <<order, run, first, ret, files, fileIdx, tests_by_interface, all_grouped_tests,
                 todo, created_count, out, extracted, origin>>

\* generate_test_file(interface_name, category, test_methods)
GenerateCall ==
  /\ pc = "call"
  /\ ret' = <<generate_test_file(arg.interface_name, arg.category, arg.test_methods)>>
  /\ pc' = "generated"
  /\ UNCHANGED <<order, run, first, arg, files, fileIdx, tests_by_interface, all_grouped_tests,
                 todo, created_count, out, extracted, origin>>

NextSynthesize ==
  \/ DetectCall
  \/ AddText
  \/ GenerateCall

SpecSynthesize == InitSynthesize /\ [][NextSynthesize]_vars

(***************************************************************************)
(* extract_all_test_methods called on its own: on a text, then possibly on *)
(* another text, then on the first text again.  ret collects what the      *)
(* calls returned.                                                         *)
(***************************************************************************)
InitExtract ==
  /\ \E dl \in DocLists(Len(FragmentsV2), 2, MaxUnits) :
       arg = [content |-> ConcatAll(FragmentsV2, dl[1]),
              other |-> ConcatAll(FragmentsV2, dl[2])]
  /\ ret = <<>>
  /\ pc = "call"
  /\ files = Empty
  /\ fileIdx = 1
  /\ tests_by_interface = Empty
  /\ all_grouped_tests = EmptyDict
  /\ todo = <<>>
  /\ created_count = 0
  /\ out = <<>>
  /\ extracted = <<>>
  /\ origin = Empty
  /\ order = [k \in 1..NumDocs |-> k]
  /\ run = 1
  /\ first = Empty

\* extract_all_test_methods(content)
ExtractCall ==
  /\ pc \in {"call", "extracted", "other"}
  /\ ret' = Append(ret, extract_all_test_methods(arg.content))
  /\ pc' = IF pc = "call" THEN "extracted" ELSE "extracted again"
  /\ UNCHANGED <<order, run, first, arg, files, fileIdx, tests_by_interface, all_grouped_tests,
                 todo, created_count, out, extracted, origin>>

\* extract_all_test_methods(other), between the two calls on content
ExtractOther ==
  /\ pc = "extracted"
  /\ ret' = Append(ret, extract_all_test_methods(arg.other))
  /\ pc' = "other"
  /\ UNCHANGED <<order, run, first, arg, files, fileIdx, tests_by_interface, all_grouped_tests,
                 todo, created_count, out, extracted, origin>>

NextExtract ==
  \/ ExtractCall
  \/ ExtractOther

SpecExtract == InitExtract /\ [][NextExtract]_vars

(***************************************************************************)
(* group_tests_by_interface called on its own, for a document of one class *)
(* without nested classes.  class_mappings maps the class to a list of     *)
(* candidate interfaces, among them a name that is part of another name,   *)
(* as Transformer is of NullableTransformer in the table.                  *)
(***************************************************************************)
CandidatePairs ==
  { <<<<"A", "b">>, "basic">>, <<<<"A", "b", "C">>, "basic">>, <<<<"C", "d">>, "generics">> }

\* the lists of candidates without repetition
CandidateLists ==
  {l \in UNION {[1..n -> CandidatePairs] : n \in 1..Cardinality(CandidatePairs)} :
     \A i \in 1..Len(l) : \A j \in 1..Len(l) : i # j => l[i] # l[j]}

FragmentsFlat ==
  << Unit(<<"a">>, <<>>, <<"fake", "A", "b", "(">>),
     Unit(<<"b">>, <<>>, <<"fake", "A", "b", "C", "(">>),
     Unit(<<"d">>, <<>>, <<"fake", "C", "d", "(", "A", "b">>),
     Unit(<<"C", "d">>, <<>>, <<"x">>),
     Unit(<<"x">>, <<>>, <<"x">>) >>

InitDistribute ==
  /\ \E idx \in FragSeqs(Len(FragmentsFlat), MaxUnits) : \E pairs \in CandidateLists :
       arg = [content |-> ConcatAll(FragmentsFlat, idx),
              class_name |-> SAMBasicTest,
              mapping |-> [list |-> TRUE, pairs |-> pairs]]
  /\ ret = None
  /\ pc = "call"
  /\ files = Empty
  /\ fileIdx = 1
  /\ tests_by_interface = Empty
  /\ all_grouped_tests = EmptyDict
  /\ todo = <<>>
  /\ created_count = 0
  /\ out = <<>>
  /\ extracted = <<>>
  /\ origin = Empty
  /\ order = [k \in 1..NumDocs |-> k]
  /\ run = 1
  /\ first = Empty

\* group_tests_by_interface(file_path, {class_name: mapping}): one pass of
\* the loop over class_mappings.items()
DistributeCall ==
  /\ pc = "call"
  /\ ret' = GroupStepV1(1, arg.class_name, arg.mapping,
                        extract_test_methods(arg.content, arg.class_name),
                        [grouped |-> EmptyDict, org |-> EmptyDict, ext |-> <<>>])
  /\ pc' = "distributed"
  /\ UNCHANGED <<order, run, first, arg, files, fileIdx, tests_by_interface, all_grouped_tests,
                 todo, created_count, out, extracted, origin>>

NextDistribute == DistributeCall

SpecDistribute == InitDistribute /\ [][NextDistribute]_vars

(***************************************************************************)
(* extract_test_methods called on its own for a nested class, on a         *)
(* document of several nested classes, some with names that hold the name  *)
(* asked for.                                                              *)
(***************************************************************************)
ClassGH == <<"G", "H">>
ClassHG == <<"H", "G">>

FragmentsNested ==
  << Grouping(ClassG, Unit(<<"a">>, <<>>, <<"fake", "A", "b", "(">>) \o <<"\n">>),
     Grouping(ClassH, Unit(<<"d">>, <<>>, <<"x", "{", "fake", "C", "d", "(", "}">>) \o <<"\n">>),
     Grouping(ClassGH, Unit(<<"b">>, <<>>, <<"fake", "A", "b", "(", "x">>) \o <<"\n">>),
     Grouping(ClassHG, Unit(<<"f">>, <<>>, <<"fake", "C", "d", "(", "x">>) \o <<"\n">>),
     \* a unit outside every nested class
     Unit(<<"x">>, <<>>, <<"x">>),
     \* nested class G that is never closed
     <<"inner", " ", "class", " ">> \o ClassG \o <<" ", "{", "\n">>
       \o Unit(<<"a", "x">>, <<>>, <<"x">>),
     \* nested class H with two units
     Grouping(ClassH, Unit(<<"a">>, <<>>, <<"x">>) \o <<"\n">>
                      \o Unit(<<"b">>, <<>>, <<"x">>) \o <<"\n">>) >>

InitNested ==
  /\ \E idx \in FragSeqs(Len(FragmentsNested), MaxUnits) : \E class_name \in {ClassG, ClassH} :
       arg = [file_content |-> ConcatAll(FragmentsNested, idx), class_name |-> class_name]
  /\ ret = None
  /\ pc = "call"
  /\ files = Empty
  /\ fileIdx = 1
  /\ tests_by_interface = Empty
  /\ all_grouped_tests = EmptyDict
  /\ todo = <<>>
  /\ created_count = 0
  /\ out = <<>>
  /\ extracted = <<>>
  /\ origin = Empty
  /\ order = [k \in 1..NumDocs |-> k]
  /\ run = 1
  /\ first = Empty

\* extract_test_methods(file_content, class_name)
ExtractNestedCall ==
  /\ pc = "call"
  /\ ret' = extract_test_methods(arg.file_content, arg.class_name)
  /\ pc' = "returned"
  /\ UNCHANGED <<order, run, first, arg, files, fileIdx, tests_by_interface, all_grouped_tests,
                 todo, created_count, out, extracted, origin>>

NextNested == ExtractNestedCall

SpecNested == InitNested /\ [][NextNested]_vars

(***************************************************************************)
(* split_sam_interfaces.py: extract_sam_interfaces                         *)
(* A line is a sequence of tokens; "// Phase", "/**", "@Fake" and          *)
(* "fun interface" are tokens, a phase number is a run of digit tokens and *)
(* an interface name a run of letters.  PHASE_MAPPING is represented by    *)
(* two of its entries; as in the table, phase 3 has none.                  *)
(***************************************************************************)
Digits == {"1", "2", "3"}
Word == Upper \cup Lower \cup Digits

PHASE_MAPPING == (<<"1">> :> "basic") @@ (<<"2">> :> "generics")

\* current_category = None
NoCategory == "None"

StartsWith(s, prefix) == Len(s) >= Len(prefix) /\ SubSeq(s, 1, Len(prefix)) = prefix

\* the length of the longest run of tokens of S that starts at position p
RunLength(s, p, S) ==
  LET ends == {n \in p..Len(s) : \A m \in p..n : s[m] \in S}
  IN Cardinality(ends)

\* re.match(r'// (Phase \d+):', line): the digits of group 1, <<>> without a match
PhaseOf(line) ==
  LET n == RunLength(line, 3, Digits)
  IN IF /\ StartsWith(line, <<"// Phase", " ">>)
        /\ n > 0
        /\ Len(line) >= 3 + n
        /\ line[3 + n] = ":"
     THEN SubSeq(line, 3, 2 + n)
     ELSE <<>>

\* re.match(r'\s*fun interface (\w+)', interface_line): group 1, <<>> without a match
InterfaceNameOf(interface_line) ==
  LET s == LStrip(interface_line)
      n == RunLength(s, 3, Word)
  IN IF StartsWith(s, <<"fun interface", " ">>) /\ n > 0 THEN SubSeq(s, 3, 2 + n) ELSE <<>>

\* while j < len(lines) and not lines[j].strip().startswith('@Fake'): j += 1
RECURSIVE SkipToFake(_, _)
SkipToFake(lines, j) ==
  IF j <= Len(lines) /\ ~StartsWith(Strip(lines[j]), <<"@Fake">>)
  THEN SkipToFake(lines, j + 1)
  ELSE j

\* while k < len(lines) and not lines[k].strip().startswith('fun interface'): k += 1
RECURSIVE SkipToInterface(_, _)
SkipToInterface(lines, k) ==
  IF k <= Len(lines) /\ ~StartsWith(Strip(lines[k]), <<"fun interface">>)
  THEN SkipToInterface(lines, k + 1)
  ELSE k

\* while k < len(lines) and brace_count > 0: append lines[k], count its braces
RECURSIVE BodyLoop(_, _, _, _)
BodyLoop(lines, k, brace_count, interface_lines) ==
  IF k <= Len(lines) /\ brace_count > 0
  THEN BodyLoop(lines, k + 1,
                brace_count + Count(lines[k], "{") - Count(lines[k], "}"),
                Append(interface_lines, lines[k]))
  ELSE [k |-> k, interface_lines |-> interface_lines]

\* the loop over the lines; the field line of a record, which the code does
\* not keep, is the number of the line of the declaration
RECURSIVE SamScan(_, _, _, _)
SamScan(lines, i, current_category, interfaces) ==
  IF i > Len(lines) THEN interfaces
  ELSE LET line == lines[i]
           category == IF StartsWith(line, <<"// Phase">>) /\ PhaseOf(line) # <<>>
                       THEN IF PhaseOf(line) \in DOMAIN PHASE_MAPPING
                            THEN PHASE_MAPPING[PhaseOf(line)] ELSE NoCategory
                       ELSE current_category
           j == SkipToFake(lines, i)
           k == SkipToInterface(lines, j + 1)
           found == /\ StartsWith(Strip(line), <<"/**">>)
                    /\ category # NoCategory
                    /\ j <= Len(lines)
                    /\ Strip(lines[j]) = <<"@Fake">>
                    /\ k <= Len(lines)
                    /\ InterfaceNameOf(lines[k]) # <<>>
       IN IF found
          THEN LET body == BodyLoop(lines, k + 1, 1, <<lines[k]>>)
               IN SamScan(lines, body.k, category,
                          Append(interfaces,
                                 [name |-> InterfaceNameOf(lines[k]),
                                  category |-> category,
                                  comment |-> Join(<<"\n">>, SubSeq(lines, i, j - 1)),
                                  interface |-> Join(<<"\n">>, body.interface_lines),
                                  line |-> k]))
          ELSE SamScan(lines, i + 1, category, interfaces)

extract_sam_interfaces(content) == SamScan(SplitLines(content), 1, NoCategory, <<>>)

(***************************************************************************)
(* extract_sam_interfaces called on its own.  The file starts with a phase *)
(* header and holds at most MaxUnits of the fragments below.               *)
(***************************************************************************)
Declaration(first_lines, rest) ==
  << <<"/**", " ", "x", " ", "*/">>, <<"@Fake">> >> \o first_lines \o rest

FragmentsSam ==
  << \* the opening brace on the line of the declaration, the closing one on its own
     Declaration(<< <<"fun interface", " ", "A", "b", " ", "{">> >>,
                 << <<" ", "fun", " ", "x", "(", ")">>, <<"}">> >>),
     \* the opening brace on the line after the declaration
     Declaration(<< <<"fun interface", " ", "C", "d">> >>,
                 << <<"{">>, <<" ", "fun", " ", "x", "(", ")">>, <<"}">> >>),
     \* a declaration of one line
     Declaration(<< <<"fun interface", " ", "E", "f", " ", "{", " ", "fun", " ", "x", "(", ")", " ", "}">> >>,
                 <<>>),
     \* a declaration that is never closed
     Declaration(<< <<"fun interface", " ", "G", " ", "{">> >>,
                 << <<" ", "fun", " ", "x", "(", ")">> >>),
     \* a body with a nested block
     Declaration(<< <<"fun interface", " ", "H", " ", "{">> >>,
                 << <<" ", "x", " ", "{">>, <<" ", "}">>, <<"}">> >>),
     \* a header of a phase without category, one of a phase with, and other text
     << <<"// Phase", " ", "3", ":", " ", "x">> >>,
     << <<"// Phase", " ", "2", ":", " ", "x">> >>,
     << <<>>, <<"x">> >> >>

InitSam ==
  /\ \E idx \in FragSeqs(Len(FragmentsSam), MaxUnits) :
       arg = Join(<<"\n">>, << <<"// Phase", " ", "1", ":", " ", "x">> >>
                            \o ConcatAll(FragmentsSam, idx))
  /\ ret = None
  /\ pc = "call"
  /\ files = Empty
  /\ fileIdx = 1
  /\ tests_by_interface = Empty
  /\ all_grouped_tests = EmptyDict
  /\ todo = <<>>
  /\ created_count = 0
  /\ out = <<>>
  /\ extracted = <<>>
  /\ origin = Empty
  /\ order = [k \in 1..NumDocs |-> k]
  /\ run = 1
  /\ first = Empty

\* extract_sam_interfaces(file_path), the file holding the text arg
ExtractSamCall ==
  /\ pc = "call"
  /\ ret' = extract_sam_interfaces(arg)
  /\ pc' = "returned"
  /\ UNCHANGED <<order, run, first, arg, files, fileIdx, tests_by_interface, all_grouped_tests,
                 todo, created_count, out, extracted, origin>>

NextSam == ExtractSamCall

SpecSam == InitSam /\ [][NextSam]_vars

(***************************************************************************)
(* move_interfaces.py: update_package_declaration                          *)
(* "package", "//" and "." are tokens.                                     *)
(***************************************************************************)
\* [\w.]: letters, digits, a dot, and the keywords made of letters
PackageNameChars == Letters \cup Digits \cup {".", "package"}

\* package\s+[\w.]+\s*
PackagePattern ==
  Cat(Lit("package"), Cat(Plus(Chr(Whitespace)),
    Cat(Plus(Chr(PackageNameChars)), Star(Chr(Whitespace)))))

\* ^ and $ under re.MULTILINE
AtLineStart(t, i) == i = 1 \/ t[i - 1] = "\n"
AtLineEnd(t, e) == e = Len(t) + 1 \/ t[e] = "\n"

\* the first match of ^package\s+[\w.]+\s*$ in the text: its start and the
\* position after its end; <<>> without a match
PackageMatch(t) ==
  LET ends == [i \in 1..Len(t) |->
                 IF AtLineStart(t, i)
                 THEN SelectSeq(Ends(PackagePattern, t, i), LAMBDA e : AtLineEnd(t, e))
                 ELSE <<>>]
      starts == {i \in 1..Len(t) : ends[i] # <<>>}
  IN IF starts = {} THEN <<>>
     ELSE LET i == CHOOSE x \in starts : \A y \in starts : x <= y
          IN <<i, ends[i][1]>>

\* re.sub(pattern, replacement, content, count=1, flags=re.MULTILINE)
SubPackage(content, replacement) ==
  LET m == PackageMatch(content)
  IN IF m = <<>> THEN content
     ELSE SubSeq(content, 1, m[1] - 1) \o replacement \o SubSeq(content, m[2], Len(content))

\* for i, line in enumerate(lines): the number of leading lines that start
\* with // or are blank
RECURSIVE InsertPos(_, _)
InsertPos(lines, i) ==
  IF i <= Len(lines) /\ (StartsWith(lines[i], <<"//">>) \/ Strip(lines[i]) = <<>>)
  THEN InsertPos(lines, i + 1)
  ELSE i - 1

\* lines.insert(pos, item), pos counted from 0
InsertAt(lines, pos, item) ==
  SubSeq(lines, 1, pos) \o <<item>> \o SubSeq(lines, pos + 1, Len(lines))

update_package_declaration(content, new_package) ==
  LET replacement == <<"package", " ">> \o new_package
      updated == SubPackage(content, replacement)
  IN IF updated = content
     THEN LET lines == SplitLines(content)
          IN Join(<<"\n">>, InsertAt(lines, InsertPos(lines, 1), replacement \o <<"\n">>))
     ELSE updated

(***************************************************************************)
(* update_package_declaration called on its own, and once more on what it  *)
(* returned.  The content is at most MaxUnits of the lines below.          *)
(***************************************************************************)
NewPackage == <<"a", ".", "b">>

PackageLinesPool ==
  << <<"//", " ", "x">>,
     <<>>,
     <<"package", " ">> \o NewPackage,
     <<"package", " ", "d", ".", "x">>,
     <<"class", " ", "A">>,
     <<"x", " ", "package", " ", "d">> >>

InitPackage ==
  /\ \E idx \in FragSeqs(Len(PackageLinesPool), MaxUnits + 1) :
       arg = [content |-> Join(<<"\n">>, [k \in 1..Len(idx) |-> PackageLinesPool[idx[k]]]),
              new_package |-> NewPackage]
  /\ ret = <<>>
  /\ pc = "call"
  /\ files = Empty
  /\ fileIdx = 1
  /\ tests_by_interface = Empty
  /\ all_grouped_tests = EmptyDict
  /\ todo = <<>>
  /\ created_count = 0
  /\ out = <<>>
  /\ extracted = <<>>
  /\ origin = Empty
  /\ order = [k \in 1..NumDocs |-> k]
  /\ run = 1
  /\ first = Empty

\* update_package_declaration(content, new_package)
UpdateCall ==
  /\ pc = "call"
  /\ ret' = <<update_package_declaration(arg.content, arg.new_package)>>
  /\ pc' = "updated"
  /\ UNCHANGED <<order, run, first, arg, files, fileIdx, tests_by_interface, all_grouped_tests,
                 todo, created_count, out, extracted, origin>>

\* update_package_declaration(updated, new_package), on what the first call returned
UpdateAgain ==
  /\ pc = "updated"
  /\ ret' = Append(ret, update_package_declaration(ret[1], arg.new_package))
  /\ pc' = "updated again"
  /\ UNCHANGED <<order, run, first, arg, files, fileIdx, tests_by_interface, all_grouped_tests,
                 todo, created_count, out, extracted, origin>>

NextPackage ==
  \/ UpdateCall
  \/ UpdateAgain

SpecPackage == InitPackage /\ [][NextPackage]_vars

(***************************************************************************)
(* add_model_imports.py: add_imports                                       *)
(* "import" and the package prefix of the models are tokens; the content   *)
(* of the file is what the function reads and what it writes back.         *)
(***************************************************************************)
ModelsPackage == "com.rsicarelli.fakt.samples.singleModule.models."

\* f"import com.rsicarelli.fakt.samples.singleModule.models.{model}"
ImportLineOf(model) == <<"import", " ", ModelsPackage>> \o model

\* the while loop: pos moves over the lines that start with 'import ' or are blank
RECURSIVE SkipImports(_, _)
SkipImports(lines, pos) ==
  IF pos < Len(lines) /\ (StartsWith(lines[pos + 1], <<"import", " ">>) \/ Strip(lines[pos + 1]) = <<>>)
  THEN SkipImports(lines, pos + 1)
  ELSE pos

\* the for loop over the lines: the position after the first line that starts
\* with 'package ' and the imports that follow it; -1 for None
ImportInsertPos(lines) ==
  LET packages == {i \in 1..Len(lines) : StartsWith(lines[i], <<"package", " ">>)}
  IN IF packages = {} THEN -1
     ELSE SkipImports(lines, CHOOSE i \in packages : \A j \in packages : i <= j)

\* for import_line in reversed(imports): insert the ones that are not in the
\* content that was read
RECURSIVE InsertMissing(_, _, _, _, _)
InsertMissing(lines, content, imports, n, pos) ==
  IF n = 0 THEN lines
  ELSE InsertMissing(IF Contains(content, imports[n]) THEN lines
                     ELSE InsertAt(lines, pos, imports[n]),
                     content, imports, n - 1, pos)

\* the content of the file after the call, and what the call returns
add_imports(content, models) ==
  LET lines == SplitLines(content)
      import_insert_pos == ImportInsertPos(lines)
      imports == [k \in 1..Len(models) |-> ImportLineOf(models[k])]
  IN IF import_insert_pos = -1
     THEN [file |-> content, returned |-> FALSE]
     ELSE [file |-> Join(<<"\n">>, InsertMissing(lines, content, imports, Len(imports),
                                                   import_insert_pos)),
           returned |-> TRUE]

(***************************************************************************)
(* add_imports called on a file, and once more on the same file.  The      *)
(* file is at most MaxUnits + 1 of the lines below; the requested models   *)
(* are Ab, AbC and Cd, and Ab is a prefix of AbC.                          *)
(***************************************************************************)
ModelAb == <<"A", "b">>
ModelAbC == <<"A", "b", "C">>
ModelCd == <<"C", "d">>

ModelLists ==
  {<<ModelAb>>, <<ModelAbC>>, <<ModelAb, ModelAbC>>, <<ModelCd, ModelAb>>}

ImportFileLines ==
  << <<"package", " ", "a", ".", "b">>,
     <<>>,
     <<"import", " ", "x">>,
     ImportLineOf(ModelAb),
     ImportLineOf(ModelAbC),
     <<"class", " ", "A">> >>

InitImports ==
  /\ \E idx \in FragSeqs(Len(ImportFileLines), MaxUnits + 1) :
       \E models \in ModelLists :
         arg = [content |-> Join(<<"\n">>, [k \in 1..Len(idx) |-> ImportFileLines[idx[k]]]),
                models |-> models]
  /\ ret = <<>>
  /\ pc = "call"
  /\ files = Empty
  /\ fileIdx = 1
  /\ tests_by_interface = Empty
  /\ all_grouped_tests = EmptyDict
  /\ todo = <<>>
  /\ created_count = 0
  /\ out = <<>>
  /\ extracted = <<>>
  /\ origin = Empty
  /\ order = [k \in 1..NumDocs |-> k]
  /\ run = 1
  /\ first = Empty

\* add_imports(file_path, models)
AddImportsCall ==
  /\ pc = "call"
  /\ ret' = <<add_imports(arg.content, arg.models)>>
  /\ pc' = "added"
  /\ UNCHANGED <<order, run, first, arg, files, fileIdx, tests_by_interface, all_grouped_tests,
                 todo, created_count, out, extracted, origin>>

\* add_imports(file_path, models) once more, on the file the first call left
AddImportsAgain ==
  /\ pc = "added"
  /\ ret' = Append(ret, add_imports(ret[1].file, arg.models))
  /\ pc' = "added again"
  /\ UNCHANGED <<order, run, first, arg, files, fileIdx, tests_by_interface, all_grouped_tests,
                 todo, created_count, out, extracted, origin>>

NextImports ==
  \/ AddImportsCall
  \/ AddImportsAgain

SpecImports == InitImports /\ [][NextImports]_vars

(***************************************************************************)
(* Properties                                                              *)
(***************************************************************************)
\* the source documents that exist
SourceAt(i) == SourcePath(AllConsolidatedFiles[i])
Present(i) == SourceAt(i) \in DOMAIN files
Sources == {SourceAt(i) : i \in 1..NumDocs}

\* the closing brace at e closes the brace opened just before position b
ClosesAt(t, b, e) ==
  /\ t[e] = "}"
  /\ Count(SubSeq(t, b, e - 1), "{") = Count(SubSeq(t, b, e - 1), "}")

\* the parts occur in the text one after the other, from position pos on
RECURSIVE InOrderFrom(_, _, _, _)
InOrderFrom(text, parts, j, pos) ==
  \/ j > Len(parts)
  \/ \E q \in pos..(Len(text) + 1) :
       /\ OccursAt(parts[j], text, q)
       /\ InOrderFrom(text, parts, j + 1, q + Len(parts[j]))

Bodies(blocks) == [k \in 1..Len(blocks) |-> blocks[k].body]
Fulls(blocks) == [k \in 1..Len(blocks) |-> blocks[k].full]

\* v2: the blocks of the first n documents whose marker names the artifact,
\* document after document and in the order of extraction
RECURSIVE BlocksOfV2(_, _)
BlocksOfV2(name, n) ==
  IF n = 0 THEN <<>>
  ELSE BlocksOfV2(name, n - 1)
       \o SelectSeq(extracted[n], LAMBDA b : identify_interface(b.body) = name)

Categories == {category_map[n] : n \in DOMAIN category_map} \cup {"unknown"}

\* the destination documents of an artifact
DestinationsOf(name) ==
  {path \in DOMAIN files : \E category \in Categories : path = DestPath(category, name)}

\* C1: every block the extractor emits has a full text with as many "{" as
\* "}", also when the unit name or the signature holds a brace.
C1_FullTextBalanced ==
  \A i \in 1..NumDocs : \A k \in 1..Len(extracted[i]) :
    Count(extracted[i][k].full, "{") = Count(extracted[i][k].full, "}")

UnitHeader == SubSeq(TestPatternV2, 1, 5)

\* the text holds a unit whose body is opened and never closed
HasUnclosedUnit(t) ==
  \E i \in 1..Len(t) :
    LET path == FirstPath(UnitHeader, 1, t, i)
    IN path # <<>> /\ \A e \in path[5]..Len(t) : ~ClosesAt(t, path[5], e)

\* C3: from a document with a body that is never closed the run extracts no
\* block, and it records exactly one MalformedDocument diagnostic for it.
C3_MalformedSkipped ==
  \A i \in 1..NumDocs :
    (i < fileIdx /\ Present(i) /\ HasUnclosedUnit(files[SourceAt(i)]))
      => /\ extracted[i] = <<>>
         /\ Cardinality({j \in 1..Len(out) :
                           out[j].kind = "malformed" /\ out[j].file = i}) = 1

\* inner class <class_name> {
GroupingHeader(class_name) ==
  << Cat(Lit("inner"), Cat(Plus(Chr(Whitespace)),
       Cat(Lit("class"), Cat(Plus(Chr(Whitespace)),
         Cat(LitSeq(class_name), Cat(Star(Chr(Whitespace)), Lit("{"))))))) >>

\* the text between the braces of the first nested class of that name, the
\* closing brace found by counting; <<>> without such a class
GroupingInner(t, class_name) ==
  LET starts == {i \in 1..Len(t) : FirstPath(GroupingHeader(class_name), 1, t, i) # <<>>}
  IN IF starts = {} THEN <<>>
     ELSE LET i == CHOOSE x \in starts : \A y \in starts : x <= y
              b == FirstPath(GroupingHeader(class_name), 1, t, i)[1]
              closers == {e \in b..Len(t) : ClosesAt(t, b, e)}
          IN IF closers = {} THEN <<>>
             ELSE SubSeq(t, b, (CHOOSE x \in closers : \A y \in closers : x <= y) - 1)

\* the well-formed units of the nested class
UnitsOf(t, class_name) == extract_all_test_methods(GroupingInner(t, class_name))

\* C4: when a nested class that the table maps to (A, C) holds two or more
\* well-formed units, the run ends with the destination of (A, C), and the
\* destination holds the bodies of all the units in their order of appearance.
C4_GroupedDestination ==
  pc = "done" =>
    \A i \in 1..NumDocs : \A c \in 1..Len(ConsolidatedV1(i).classes) :
      LET class_name == ConsolidatedV1(i).classes[c]
          mapping == NESTED_CLASS_TO_INTERFACE[class_name]
      IN (Present(i) /\ ~mapping.list /\ Len(UnitsOf(files[SourceAt(i)], class_name)) >= 2)
           => LET dest == DestPath(mapping.pair[2], mapping.pair[1])
              IN /\ dest \in DOMAIN files
                 /\ InOrderFrom(files[dest],
                                Bodies(UnitsOf(files[SourceAt(i)], class_name)), 1, 1)

\* where the bucket of key holds method k of class class_name of document i
HeldAt(key, i, class_name, k) ==
  IF key \in DOMAIN origin.val
  THEN {j \in 1..Len(origin.val[key]) :
          origin.val[key][j] = [file |-> i, class |-> class_name, k |-> k]}
  ELSE {}

\* C5: a block extracted from nested class G is in the bucket of the key the
\* table gives for G, once, and in no other bucket, whatever factory its
\* body names.
C5_GroupedOverride ==
  \A i \in 1..NumDocs : \A c \in 1..Len(extracted[i]) :
    LET e == extracted[i][c]
        mapping == NESTED_CLASS_TO_INTERFACE[e.class]
    IN ~mapping.list =>
         \A k \in 1..Len(e.methods) :
           \A key \in DOMAIN all_grouped_tests.val \cup {mapping.pair} :
             IF key = mapping.pair
             THEN /\ Cardinality(HeldAt(key, i, e.class, k)) = 1
                  /\ \A j \in HeldAt(key, i, e.class, k) :
                       all_grouped_tests.val[key][j] = e.methods[k]
             ELSE HeldAt(key, i, e.class, k) = {}

\* the run has written the destination of nested class G from a block whose
\* body names the factory of another artifact, which has a bucket of its own
C5_Witness ==
  /\ pc = "done"
  /\ \E i \in 1..NumDocs : \E c \in 1..Len(extracted[i]) :
       LET e == extracted[i][c]
           mapping == NESTED_CLASS_TO_INTERFACE[e.class]
       IN /\ ~mapping.list
          /\ \E k \in 1..Len(e.methods) : Contains(e.methods[k], <<"fake", "C", "d", "(">>)
          /\ mapping.pair[1] # <<"C", "d">>
          /\ DestPath(mapping.pair[2], mapping.pair[1]) \in DOMAIN files
          /\ <<<<"C", "d">>, "generics">> \in DOMAIN all_grouped_tests.val

\* C7: a block for which no artifact name is resolved (here: no candidate
\* name of the flat distribution occurs in its text) is in no bucket and, the
\* run having gone on to its end, is reported by exactly one warning.
C7_UnresolvedReported ==
  pc = "done" =>
    \A i \in 1..NumDocs : \A c \in 1..Len(extracted[i]) :
      LET e == extracted[i][c]
          mapping == NESTED_CLASS_TO_INTERFACE[e.class]
      IN mapping.list =>
           \A k \in 1..Len(e.methods) :
             (\A n \in 1..Len(mapping.pairs) : ~Contains(e.methods[k], mapping.pairs[n][1]))
               => /\ \A key \in DOMAIN origin.val : HeldAt(key, i, e.class, k) = {}
                  /\ Cardinality({j \in 1..Len(out) :
                                    /\ out[j].kind = "unidentified"
                                    /\ out[j].file = i
                                    /\ out[j].k = k}) = 1

\* the end of the longest run of letters that follows the capital at p + 1
NameEnd(t, p) ==
  CHOOSE e \in (p + 2)..(Len(t) + 1) :
    /\ \A j \in (p + 2)..(e - 1) : t[j] \in Letters
    /\ e = Len(t) + 1 \/ t[e] \notin Letters

\* a factory marker starts at p: "fake", a capital letter, one or more
\* letters, blanks if any, and one of the delimiters < { (
MarkerAt(t, p) ==
  /\ p + 2 <= Len(t)
  /\ t[p] = "fake" /\ t[p + 1] \in Upper /\ t[p + 2] \in Letters
  /\ \E q \in NameEnd(t, p)..Len(t) :
       /\ t[q] \in {"<", "{", "("}
       /\ \A j \in NameEnd(t, p)..(q - 1) : t[j] \in Whitespace

MarkerName(t, p) == SubSeq(t, p + 1, NameEnd(t, p) - 1)

Markers(t) == {p \in 1..Len(t) : MarkerAt(t, p)}

\* C6: identify_interface returns the name of the leftmost factory marker of
\* the body, and none exactly when the body holds no factory marker.
C6_LeftmostMarker ==
  pc = "returned" =>
    IF Markers(arg) = {} THEN ret = None
    ELSE /\ ret = MarkerName(arg, CHOOSE p \in Markers(arg) : \A q \in Markers(arg) : p <= q)
         /\ ret # None

\* the call returned the name of the first of two markers of different names
C6_Witness ==
  /\ pc = "returned"
  /\ \E p, q \in Markers(arg) :
       /\ p < q
       /\ \A r \in Markers(arg) : p <= r
       /\ MarkerName(arg, p) # MarkerName(arg, q)
       /\ ret = MarkerName(arg, p)

\* C8: an artifact whose name the category table does not hold gets category
\* "unknown", no destination, and one diagnostic of its own, which is not the
\* warning of a block without marker; the artifacts of known category get
\* their destination.
C8_UnknownCategory ==
  pc = "done" =>
    /\ \A name \in DOMAIN tests_by_interface :
         IF name \in DOMAIN category_map
         THEN DestPath(category_map[name], name) \in DOMAIN files
         ELSE /\ get_category_for_interface(name) = "unknown"
              /\ DestinationsOf(name) = {}
              /\ Cardinality({j \in 1..Len(out) :
                                out[j].kind = "unknown_category" /\ out[j].interface = name}) = 1
    /\ \A j \in 1..Len(out) :
         /\ out[j].kind = "unknown_category" => out[j].interface \notin DOMAIN category_map
         /\ out[j].kind = "unidentified"
              => identify_interface(extracted[out[j].file][out[j].k].body) = None

\* the run ended with blocks of an artifact the table does not hold, of an
\* artifact it holds, and a block without marker
C8_Witness ==
  /\ pc = "done"
  /\ \E name \in DOMAIN tests_by_interface : name \notin DOMAIN category_map
  /\ \E name \in DOMAIN tests_by_interface : name \in DOMAIN category_map
  /\ \E j \in 1..Len(out) : out[j].kind = "unidentified"

\* C9: at the end of the run the destinations are exactly one per artifact
\* of known category that has a block, and the destination of an artifact
\* holds every block classified to it, from whichever document.
C9_OneDestinationPerKey ==
  pc = "done" =>
    /\ DOMAIN files \ Sources
         = {DestPath(category_map[name], name) :
              name \in {n \in DOMAIN category_map : BlocksOfV2(n, NumDocs) # <<>>}}
    /\ \A name \in DOMAIN category_map :
         LET blocks == BlocksOfV2(name, NumDocs)
         IN IF blocks = <<>> THEN DestinationsOf(name) = {}
            ELSE /\ DestinationsOf(name) = {DestPath(category_map[name], name)}
                 /\ \A k \in 1..Len(blocks) :
                      Contains(files[DestPath(category_map[name], name)], blocks[k].full)

\* the run ended with an artifact whose blocks came from two documents
C9_Witness ==
  /\ pc = "done"
  /\ \E name \in DOMAIN category_map :
       /\ DestPath(category_map[name], name) \in DOMAIN files
       /\ \E i, j \in 1..NumDocs :
            /\ i # j
            /\ \E k \in 1..Len(extracted[i]) : identify_interface(extracted[i][k].body) = name
            /\ \E k \in 1..Len(extracted[j]) : identify_interface(extracted[j][k].body) = name

\* C10: a bucket holds its blocks document after document in the order of
\* processing and, within a document, in the order of appearance; so does the
\* destination generated from it.
C10_BucketOrder ==
  \A name \in DOMAIN tests_by_interface :
    /\ tests_by_interface[name] = Fulls(BlocksOfV2(name, NumDocs))
    /\ DestPath(get_category_for_interface(name), name) \in DOMAIN files
         => InOrderFrom(files[DestPath(get_category_for_interface(name), name)],
                        Fulls(BlocksOfV2(name, NumDocs)), 1, 1)

\* a destination was generated from a bucket with the blocks of two nested
\* classes of one document and a block of another document
C10_Witness ==
  \E name \in DOMAIN tests_by_interface :
    /\ DestPath(get_category_for_interface(name), name) \in DOMAIN files
    /\ \E i, j \in 1..NumDocs :
         /\ i # j
         /\ Present(i)
         /\ Count(files[SourceAt(i)], "inner") >= 2
         /\ Len(SelectSeq(extracted[i], LAMBDA b : identify_interface(b.body) = name)) >= 2
         /\ Len(SelectSeq(extracted[j], LAMBDA b : identify_interface(b.body) = name)) >= 1
\* v2: the full texts of those of the blocks whose marker names the artifact
ContributionV2(blocks, name) ==
  Fulls(SelectSeq(blocks, LAMBDA b : identify_interface(b.body) = name))

\* the entries of the bucket of the artifact that came from the document at
\* position i of the list
FromDoc(name, i) ==
  IF name \notin DOMAIN tests_by_interface THEN <<>>
  ELSE LET idx == SelectSeq([j \in 1..Len(origin[name]) |-> j],
                            LAMBDA j : origin[name][j][1] = i)
       IN [k \in 1..Len(idx) |-> tests_by_interface[name][idx[k]]]

\* the artifact names the markers of the fragments can give
ArtifactNames == {<<"A", "b">>, <<"C", "d">>, <<"E", "f">>}

\* a document fails: it is missing, holds a unit that is never closed, or a
\* block without marker
FailingDoc(i) ==
  \/ ~Present(i)
  \/ HasUnclosedUnit(files[SourceAt(i)])
  \/ \E k \in 1..Len(extract_all_test_methods(files[SourceAt(i)])) :
       identify_interface(extract_all_test_methods(files[SourceAt(i)])[k].body) = None

\* what every processed document has put into the buckets is what its own
\* text gives, and at the end of the run the destinations hold it
ContributionsKept ==
  \A i \in 1..NumDocs :
    (i < fileIdx /\ Present(i)) =>
      LET blocks == extract_all_test_methods(files[SourceAt(i)])
      IN \A name \in ArtifactNames \cup DOMAIN tests_by_interface :
           /\ FromDoc(name, i) = ContributionV2(blocks, name)
           /\ (pc = "done" /\ name \in DOMAIN category_map) =>
                \A k \in 1..Len(FromDoc(name, i)) :
                  Contains(files[DestPath(category_map[name], name)], FromDoc(name, i)[k])

\* C11: the blocks a document contributes to the buckets and destinations are
\* those of its own text, whatever documents before or after it are missing,
\* unclosed or hold blocks without marker; and every run reaches its summary
\* with these contributions in place.
C11_FailureIsolated == <>(pc = "done" /\ ContributionsKept)

\* the run ended with the blocks of a document without failure in a
\* destination, the other document holding an unclosed unit or a block
\* without marker
C11_Witness ==
  /\ pc = "done"
  /\ \E i, j \in 1..NumDocs :
       /\ i # j
       /\ ~FailingDoc(i)
       /\ Present(j) /\ FailingDoc(j)
       /\ \E name \in DOMAIN category_map : FromDoc(name, i) # <<>>

\* the positions at which an annotated unit starts: @Test fun, the name
\* between backquotes, (), the signature and the opening brace of the body
UnitStarts(t) == {i \in 1..Len(t) : FirstPath(UnitHeader, 1, t, i) # <<>>}

\* the starts of the units that were extracted as blocks of an artifact of
\* known category, which are the blocks the destinations hold
PlacedStarts(t) ==
  Let(FindIter(TestPatternV2, t, 1),
      LAMBDA ms : {ms[k].start : k \in {n \in 1..Len(ms) :
                     identify_interface(Group(t, ms[n], 6)) \in DOMAIN category_map}})

\* the diagnostics of the report
Diagnostics ==
  {j \in 1..Len(out) : out[j].kind \in {"malformed", "unidentified", "unknown_category"}}

\* C12: when a run has ended and an annotated unit of a processed document is
\* in no destination, the report of the run holds at least one diagnostic.
C12_PartialReported ==
  pc = "done" =>
    ((\E i \in 1..NumDocs :
        Present(i) /\ UnitStarts(files[SourceAt(i)]) # PlacedStarts(files[SourceAt(i)]))
       => Diagnostics # {})

\* the destination documents
Destinations == DOMAIN files \ Sources

\* C13: at the end of a second run on unmodified source documents the
\* destination files are those the first run left, each with the same content.
C13_RerunIdentical ==
  (run = 2 /\ pc = "done") =>
    /\ DOMAIN files = DOMAIN first
    /\ \A path \in DOMAIN files : files[path] = first[path]

\* the second run has ended, having written two destinations again, one of
\* them from two or more blocks
C13_Witness ==
  /\ run = 2
  /\ pc = "done"
  /\ created_count >= 2
  /\ Cardinality(Destinations) >= 2
  /\ \E name \in DOMAIN tests_by_interface :
       /\ name \in DOMAIN category_map
       /\ Len(tests_by_interface[name]) >= 2

\* the blocks of document i, whatever its place in the list of main
DocBlocks(i) == IF Present(i) THEN extract_all_test_methods(files[SourceAt(i)]) ELSE <<>>

\* docs being the blocks of every document: the blocks of the artifact,
\* document after document in the order of the list as main writes it
ContributionsOf(docs, name) ==
  Flatten([i \in 1..NumDocs |-> ContributionV2(docs[i], name)], 1, NumDocs)

\* how often b is in the sequence
CountOf(seq, b) == Cardinality({k \in 1..Len(seq) : seq[k] = b})

\* the same elements, each as often
SameBag(s1, s2) ==
  /\ Len(s1) = Len(s2)
  /\ \A k \in 1..Len(s1) : CountOf(s1, s1[k]) = CountOf(s2, s1[k])

\* the artifacts of which some document holds a block
ArtifactsWithBlocks(docs) ==
  {name \in ArtifactNames : ContributionsOf(docs, name) # <<>>}

\* the diagnostics main has printed, as the set of what the lines say
PrintedDiagnostics ==
  {<<out[j].kind,
     CASE out[j].kind = "skipping" -> consolidated_files[out[j].file]
       [] out[j].kind = "unidentified" -> out[j].name
       [] OTHER -> out[j].interface>> :
     j \in {n \in 1..Len(out) :
              out[n].kind \in {"skipping", "unidentified", "unknown_category"}}}

\* the diagnostics the documents give, whatever their order
ExpectedDiagnostics(docs) ==
  {<<"skipping", AllConsolidatedFiles[i]>> : i \in {n \in 1..NumDocs : ~Present(n)}}
  \cup UNION {{<<"unidentified", docs[i][k].name>> :
                 k \in {n \in 1..Len(docs[i]) : identify_interface(docs[i][n].body) = None}} :
              i \in 1..NumDocs}
  \cup {<<"unknown_category", name>> : name \in ArtifactsWithBlocks(docs) \ DOMAIN category_map}

\* the outcome of the run is the one the documents docs give
OutcomeOf(docs) ==
  /\ Destinations
       = {DestPath(category_map[name], name) :
            name \in ArtifactsWithBlocks(docs) \cap DOMAIN category_map}
  /\ DOMAIN tests_by_interface = ArtifactsWithBlocks(docs)
  /\ \A name \in DOMAIN tests_by_interface :
       /\ SameBag(tests_by_interface[name], ContributionsOf(docs, name))
       /\ name \in DOMAIN category_map
            => /\ \A k \in 1..Len(tests_by_interface[name]) :
                    Contains(files[DestPath(category_map[name], name)],
                             tests_by_interface[name][k])
               /\ Count(files[DestPath(category_map[name], name)], "@Test")
                    = Len(tests_by_interface[name])
  /\ PrintedDiagnostics = ExpectedDiagnostics(docs)

\* C14: whatever the order in which the list names the documents, the run ends
\* with the same destinations (one per artifact of known category with a
\* block), the same blocks as often in every bucket and destination, and the
\* same set of diagnostics: each of them is given by the documents alone.
C14_OrderIndependent ==
  pc = "done" => Let([i \in 1..NumDocs |-> DocBlocks(i)], LAMBDA docs : OutcomeOf(docs))

\* a run has ended that took the documents in the other order and put blocks
\* of both into one bucket, so that the bucket is not in the order of the list
\* as main writes it
C14_Witness ==
  /\ pc = "done"
  /\ order # [k \in 1..NumDocs |-> k]
  /\ \E name \in DOMAIN tests_by_interface :
       /\ name \in DOMAIN category_map
       /\ \E i, j \in 1..NumDocs :
            /\ i # j
            /\ ContributionV2(DocBlocks(i), name) # <<>>
            /\ ContributionV2(DocBlocks(j), name) # <<>>
       /\ tests_by_interface[name] # ContributionsOf([i \in 1..NumDocs |-> DocBlocks(i)], name)

\* the six names of the claim and the import each stands for
KnownTokens ==
  ("assertTrue" :> "kotlin.test.assertTrue")
  @@ ("assertFalse" :> "kotlin.test.assertFalse")
  @@ ("assertNull" :> "kotlin.test.assertNull")
  @@ ("assertContentEquals" :> "kotlin.test.assertContentEquals")
  @@ ("assertIs" :> "kotlin.test.assertIs")
  @@ ("runTest" :> "kotlinx.coroutines.test.runTest")

\* C16: when one of the six names occurs in the joined text of the methods,
\* the set detect_needed_imports returns holds its import.
C16_NeverUnderIncludes ==
  pc = "detected" =>
    \A token \in DOMAIN KnownTokens :
      Contains(Join(<<"\n">>, arg.test_methods), <<token>>) => KnownTokens[token] \in ret[1]

\* C17: the set detect_needed_imports returns for a list of methods is a
\* subset of the set it returns for the list with one more method.
C17_ImportsMonotonic ==
  pc = "detected again" => ret[1] \subseteq ret[2]

\* an import was included for the list, and the method added brought a
\* further one
C17_Witness ==
  /\ pc = "detected again"
  /\ Cardinality(ret[1]) >= 3
  /\ ret[1] # ret[2]
  /\ Len(arg.test_methods) >= 2

\* the lines of a generated text that declare an import
ImportLinesOf(text) ==
  SelectSeq(SplitLines(text), LAMBDA l : l # <<>> /\ Head(l) = "import ")

Baseline == {"kotlin.test.Test", "kotlin.test.assertEquals"}

\* the rules of detect_needed_imports: the text a rule looks for and the
\* import it adds
DetectionRules ==
  { << <<"assertTrue">>, "kotlin.test.assertTrue" >>,
    << <<"assertFalse">>, "kotlin.test.assertFalse" >>,
    << <<"assertNull">>, "kotlin.test.assertNull" >>,
    << <<"assertContentEquals">>, "kotlin.test.assertContentEquals" >>,
    << <<"assertIs", "<">>, "kotlin.test.assertIs" >>,
    << <<"runTest">>, "kotlinx.coroutines.test.runTest" >> }

\* the imports of the rules whose text occurs in one of the blocks
TriggeredBy(blocks) ==
  {r[2] : r \in {r \in DetectionRules : \E k \in 1..Len(blocks) : Contains(blocks[k], r[1])}}

ArtifactImports(interface_name, category) ==
  { <<"import ", PackagePrefix, category, ".">> \o interface_name,
    <<"import ", PackagePrefix, category, ".", "fake">> \o interface_name }

\* C15: the import lines of the text generated for an artifact are the
\* lines of the two baseline imports, of the imports whose rule finds its
\* text in one of the blocks, and the two lines of the artifact and of its
\* fake; no further import line, and none of these missing.
C15_ImportSetExact ==
  pc = "generated" =>
    Let(ImportLinesOf(ret[1]),
        LAMBDA ls :
          {ls[k] : k \in 1..Len(ls)}
            = {<<"import ", n>> : n \in Baseline \cup TriggeredBy(arg.test_methods)}
              \cup ArtifactImports(arg.interface_name, arg.category))

\* a text generated from two blocks, with imports of two rules or more,
\* one of them found in the second block only
C15_Witness ==
  /\ pc = "generated"
  /\ Len(arg.test_methods) = 2
  /\ Cardinality(TriggeredBy(arg.test_methods)) >= 2
  /\ TriggeredBy(arg.test_methods) # TriggeredBy(SubSeq(arg.test_methods, 1, 1))
  /\ Len(ImportLinesOf(ret[1])) >= 6

\* the code points of the import names
NameCodes ==
  ("kotlin.test.Test" :>
     <<107, 111, 116, 108, 105, 110, 46, 116, 101, 115, 116, 46, 84,
       101, 115, 116>>)
  @@ ("kotlin.test.assertContentEquals" :>
     <<107, 111, 116, 108, 105, 110, 46, 116, 101, 115, 116, 46, 97,
       115, 115, 101, 114, 116, 67, 111, 110, 116, 101, 110, 116,
       69, 113, 117, 97, 108, 115>>)
  @@ ("kotlin.test.assertEquals" :>
     <<107, 111, 116, 108, 105, 110, 46, 116, 101, 115, 116, 46, 97,
       115, 115, 101, 114, 116, 69, 113, 117, 97, 108, 115>>)
  @@ ("kotlin.test.assertFalse" :>
     <<107, 111, 116, 108, 105, 110, 46, 116, 101, 115, 116, 46, 97,
       115, 115, 101, 114, 116, 70, 97, 108, 115, 101>>)
  @@ ("kotlin.test.assertIs" :>
     <<107, 111, 116, 108, 105, 110, 46, 116, 101, 115, 116, 46, 97,
       115, 115, 101, 114, 116, 73, 115>>)
  @@ ("kotlin.test.assertNull" :>
     <<107, 111, 116, 108, 105, 110, 46, 116, 101, 115, 116, 46, 97,
       115, 115, 101, 114, 116, 78, 117, 108, 108>>)
  @@ ("kotlin.test.assertTrue" :>
     <<107, 111, 116, 108, 105, 110, 46, 116, 101, 115, 116, 46, 97,
       115, 115, 101, 114, 116, 84, 114, 117, 101>>)
  @@ ("kotlinx.coroutines.test.runTest" :>
     <<107, 111, 116, 108, 105, 110, 120, 46, 99, 111, 114, 111, 117,
       116, 105, 110, 101, 115, 46, 116, 101, 115, 116, 46, 114,
       117, 110, 84, 101, 115, 116>>)

\* the lines of the blocks, a blank line after each block
RECURSIVE BlockLines(_)
BlockLines(blocks) ==
  IF blocks = <<>> THEN <<>>
  ELSE SplitLines(Head(blocks)) \o << <<>> >> \o BlockLines(Tail(blocks))

\* the parts of a generated text, in their order
FixedOrder(text, interface_name, category, blocks) ==
  LET lines == SplitLines(text)
      header == SplitLines(COPYRIGHT_HEADER)
      h == Len(header)
      n == Len(ImportLinesOf(text)) - 2
      rest == BlockLines(blocks) \o << <<"}">> >>
  IN /\ SubSeq(lines, 1, h) = header
     /\ \E p \in (h + 1)..Len(lines) : \E a \in (p + 1)..Len(lines) :
          /\ lines[p] = <<"package ", PackagePrefix, category>>
          /\ \A q \in ((h + 1)..(a - 1)) \ {p} : lines[q] = <<>>
          /\ n >= 0
          /\ a + n + 6 <= Len(lines)
          /\ lines[a] = <<"import ", PackagePrefix, category, ".">> \o interface_name
          /\ lines[a + 1] = <<"import ", PackagePrefix, category, ".", "fake">> \o interface_name
          /\ \A k \in 1..n :
               /\ Len(lines[a + 1 + k]) = 2
               /\ lines[a + 1 + k][1] = "import "
               /\ lines[a + 1 + k][2] \in DOMAIN NameCodes
          /\ \A k \in 1..(n - 1) :
               LexLess(NameCodes[lines[a + 1 + k][2]], NameCodes[lines[a + 2 + k][2]])
          /\ lines[a + n + 2] = <<>>
          /\ lines[a + n + 3] = <<"/**">>
          /\ lines[a + n + 4] = <<" * Tests for ">> \o interface_name \o <<" SAM interface.">>
          /\ lines[a + n + 5] = <<" */">>
          /\ lines[a + n + 6] = <<"class ">> \o interface_name \o <<"Test", " ", "{">>
          /\ LET c == a + n + 6
                 s == Len(lines) - Len(rest) + 1
             IN /\ s > c
                /\ SubSeq(lines, s, Len(lines)) = rest
                /\ \A q \in (c + 1)..(s - 1) : lines[q] = <<>>
     /\ \A k \in 1..Len(blocks) :
          /\ SubSeq(blocks[k], 1, Len(Indent)) = Indent
          /\ blocks[k][Len(Indent) + 1] # " "

C18_GeneratedBalanced ==
  \A path \in Destinations : Count(files[path], "{") = Count(files[path], "}")

BucketsOf(i, k) ==
  {name \in DOMAIN origin : \E j \in 1..Len(origin[name]) : origin[name][j] = <<i, k>>}

\* the k-th block of the i-th document was reported as unidentified
ReportedUnidentified(i, k) ==
  \E j \in 1..Len(out) : out[j].kind = "unidentified" /\ out[j].file = i /\ out[j].k = k

Mentions(method, interface_name) ==
  \/ \E i \in 1..Len(method) : OccursAt(interface_name, method, i)
  \/ \E i \in 1..Len(method) : OccursAt(<<"fake">> \o interface_name, method, i)

\* how often the bucket of the key holds the m-th method of the class
TimesIn(grouping, key, m) ==
  IF key \notin DOMAIN grouping.org.val THEN 0
  ELSE Cardinality({n \in 1..Len(grouping.org.val[key]) : grouping.org.val[key][n].k = m})

\* C22: distributing the blocks of a class without nested classes among its
\* candidate interfaces, a block is in the bucket of a candidate, once, when
\* the name of the candidate or of its factory occurs in the text of the
\* block, and in no other bucket; a block that mentions k candidates is in
\* k buckets, also when the name of a candidate is part of another's.
C22_FlatDistribution ==
  pc = "distributed" =>
    LET methods == ret.ext[1].methods
        pairs == arg.mapping.pairs
        keys == {pairs[j] : j \in 1..Len(pairs)}
    IN /\ DOMAIN ret.grouped.val \subseteq keys
       /\ \A m \in 1..Len(methods) :
            /\ \A key \in keys :
                 TimesIn(ret, key, m) = IF Mentions(methods[m], key[1]) THEN 1 ELSE 0
            /\ Cardinality({key \in DOMAIN ret.grouped.val : TimesIn(ret, key, m) > 0})
                 = Cardinality({key \in keys : Mentions(methods[m], key[1])})
       /\ \A key \in DOMAIN ret.grouped.val :
            ret.grouped.val[key]
              = [n \in 1..Len(ret.org.val[key]) |-> methods[ret.org.val[key][n].k]]

\* a block naming the factory of a candidate whose name holds the name of
\* another candidate went to both buckets, a block mentioning two names that
\* do not overlap went to two buckets, and a block went to none
C22_Witness ==
  /\ pc = "distributed"
  /\ Len(arg.mapping.pairs) = 3
  /\ \E m \in 1..Len(ret.ext[1].methods) :
       /\ Contains(ret.ext[1].methods[m], <<"fake", "A", "b", "C">>)
       /\ TimesIn(ret, <<<<"A", "b">>, "basic">>, m) = 1
       /\ TimesIn(ret, <<<<"A", "b", "C">>, "basic">>, m) = 1
       /\ TimesIn(ret, <<<<"C", "d">>, "generics">>, m) = 0
  /\ \E m \in 1..Len(ret.ext[1].methods) :
       /\ TimesIn(ret, <<<<"A", "b">>, "basic">>, m) = 1
       /\ TimesIn(ret, <<<<"C", "d">>, "generics">>, m) = 1
  /\ \E m \in 1..Len(ret.ext[1].methods) :
       \A key \in CandidatePairs : TimesIn(ret, key, m) = 0

\* the position of the brace that closes the brace opened just before
\* position b: the first at which the depth is back to zero; 0 without one
MatchingClose(t, b) ==
  LET es == {e \in b..Len(t) : ClosesAt(t, b, e)}
  IN IF es = {} THEN 0 ELSE CHOOSE e \in es : \A x \in es : e <= x

\* the position after the opening brace of the body of the unit starting at i
BodyStart(t, i) == FirstPath(UnitHeader, 1, t, i)[5]

\* C23: every block extract_all_test_methods emits starts at a unit and ends
\* at the brace that closes the opening brace of the body of that unit, the
\* first at which the brace depth is back to zero, and its body is the text
\* between the two; for a unit whose body is never closed no block is
\* emitted.
C23_NeverTruncated ==
  pc = "extracted" =>
    Let(FindIter(TestPatternV2, arg.content, 1),
        LAMBDA ms :
          /\ Len(ret[1]) = Len(ms)
          /\ \A k \in 1..Len(ms) :
               /\ ms[k].start \in UnitStarts(arg.content)
               /\ ms[k].path[5] = BodyStart(arg.content, ms[k].start)
               /\ ms[k].path[7] - 1 = MatchingClose(arg.content, ms[k].path[5])
               /\ ret[1][k].body = SubSeq(arg.content, ms[k].path[5], ms[k].path[7] - 2)
               /\ LET tail == ret[1][k].body \o <<"}">>
                      full == ret[1][k].full
                  IN SubSeq(full, Len(full) - Len(tail) + 1, Len(full)) = tail
          /\ \A i \in UnitStarts(arg.content) :
               MatchingClose(arg.content, BodyStart(arg.content, i)) = 0
                 => \A k \in 1..Len(ms) : ms[k].start # i)

\* a block whose body holds a nested block was emitted, and so was another
\* block, from a text that also holds a unit that is never closed or nests
\* three deep, for which none was emitted
C23_Witness ==
  /\ pc = "extracted"
  /\ Len(ret[1]) >= 2
  /\ \E k \in 1..Len(ret[1]) : Count(ret[1][k].body, "{") >= 1
  /\ Cardinality(UnitStarts(arg.content)) > Len(ret[1])

\* the spans of the nested classes declared with that name: from the
\* position after the opening brace to the brace that closes it, found by
\* counting
GroupingSpans(t, class_name) ==
  {s \in {[from |-> FirstPath(GroupingHeader(class_name), 1, t, i)[1],
           to |-> MatchingClose(t, FirstPath(GroupingHeader(class_name), 1, t, i)[1])] :
            i \in {x \in 1..Len(t) : FirstPath(GroupingHeader(class_name), 1, t, x) # <<>>}} :
     s.to # 0}

\* C24: the methods extract_test_methods returns for a nested class are
\* units lying, one after the other, between the braces of a nested class
\* declared with that name, and none of them lies in a nested class declared
\* with another name, also one whose name holds the name asked for.
C24_InsideGrouping ==
  (pc = "returned" /\ ret # <<>>) =>
    /\ \E s \in GroupingSpans(arg.file_content, arg.class_name) :
         InOrderFrom(SubSeq(arg.file_content, s.from, s.to - 1), ret, 1, 1)
    /\ \A other \in {ClassG, ClassH, ClassGH, ClassHG} \ {arg.class_name} :
         \A s \in GroupingSpans(arg.file_content, other) :
           \A k \in 1..Len(ret) :
             ~Contains(SubSeq(arg.file_content, s.from, s.to - 1), ret[k])

\* a method was returned for G from a document that also holds a nested
\* class whose name ends with G, before the one named G, and another nested
\* class
C24_Witness ==
  /\ pc = "returned"
  /\ arg.class_name = ClassG
  /\ Len(ret) = 1
  /\ GroupingSpans(arg.file_content, ClassHG) # {}
  /\ \E s \in GroupingSpans(arg.file_content, ClassHG) :
       \E g \in GroupingSpans(arg.file_content, ClassG) : s.to < g.from
  /\ \E other \in {ClassH, ClassGH} : GroupingSpans(arg.file_content, other) # {}

\* the sum of the block counts of the "created" lines among the first n
\* lines of the report
RECURSIVE CreatedTotal(_)
CreatedTotal(n) ==
  IF n = 0 THEN 0
  ELSE CreatedTotal(n - 1) + (IF out[n].kind = "created" THEN out[n].n ELSE 0)

\* C25: in the summary the total of tests is the sum of the counts reported
\* for the destinations that were created, and the number of created files
\* is the number of destination documents written, also when an artifact
\* was skipped for its unknown category.
C25_SummaryTotals ==
  pc = "done" =>
    /\ out[Len(out)].total = CreatedTotal(Len(out))
    /\ out[Len(out)].created = Cardinality(Destinations)

\* C26: no step of a run creates, removes or changes a source document:
\* every path whose content a step changes is a destination path
\* <category>/<Artifact>Test.kt, which is the path of no source.
C26_SourcesUntouched ==
  [][/\ \A p \in Sources :
          /\ p \in DOMAIN files <=> p \in DOMAIN files'
          /\ p \in DOMAIN files => files'[p] = files[p]
     /\ \A p \in DOMAIN files' :
          (p \notin DOMAIN files \/ files'[p] # files[p])
            => /\ p \notin Sources
               /\ \E name \in DOMAIN tests_by_interface :
                    p = <<get_category_for_interface(name), "/">> \o name \o <<"Test.kt">>]_vars

\* the run ended with two sources read and two destinations written
C26_Witness ==
  /\ pc = "done"
  /\ \A i \in 1..NumDocs : Present(i) /\ extracted[i] # <<>>
  /\ Cardinality(Destinations) >= 2

\* how often the buckets hold the k-th block of the i-th document
TimesBucketed(i, k) ==
  Cardinality({e \in UNION {{<<name, j>> : j \in 1..Len(origin[name])} : name \in DOMAIN origin} :
                 origin[e[1]][e[2]] = <<i, k>>})

\* how often the k-th block of the i-th document was reported as unidentified
TimesReported(i, k) ==
  Cardinality({j \in 1..Len(out) :
                 out[j].kind = "unidentified" /\ out[j].file = i /\ out[j].k = k})

RECURSIVE ExtractedUpTo(_)
ExtractedUpTo(n) == IF n = 0 THEN 0 ELSE ExtractedUpTo(n - 1) + Len(extracted[n])

\* C27: every block extracted from the documents processed so far was
\* appended once to the bucket of one artifact, or reported once as
\* unidentified, and not both; the number of extracted blocks is the number
\* of blocks in the buckets plus the number of unidentified warnings.
C27_HandledOnce ==
  /\ \A i \in 1..NumDocs : \A k \in 1..Len(extracted[i]) :
       TimesBucketed(i, k) + TimesReported(i, k) = 1
  /\ ExtractedUpTo(NumDocs)
       = SumLen(tests_by_interface, DOMAIN tests_by_interface)
         + Cardinality({j \in 1..Len(out) : out[j].kind = "unidentified"})
  /\ \A name \in DOMAIN tests_by_interface :
       Len(tests_by_interface[name]) = Len(origin[name])

\* two documents were processed: blocks went to the buckets of two artifacts
\* and a block was reported as unidentified
C27_Witness ==
  /\ fileIdx > NumDocs
  /\ \A i \in 1..NumDocs : extracted[i] # <<>>
  /\ Cardinality(DOMAIN tests_by_interface) >= 2
  /\ \E i \in 1..NumDocs : \E k \in 1..Len(extracted[i]) : TimesReported(i, k) = 1

\* the text from line n on
FromLine(content, n) ==
  Join(<<"\n">>, SubSeq(SplitLines(content), n, Len(SplitLines(content))))

\* the position of the first "{" of the text, 0 without one
FirstOpen(t) ==
  LET os == {p \in 1..Len(t) : t[p] = "{"}
  IN IF os = {} THEN 0 ELSE CHOOSE p \in os : \A q \in os : p <= q

\* the text of the declaration of line n up to the end of the line holding
\* the brace that closes its first "{"; <<>> when the brace is never closed
DeclarationText(content, n) ==
  LET t == FromLine(content, n)
      close == IF FirstOpen(t) = 0 THEN 0 ELSE MatchingClose(t, FirstOpen(t) + 1)
      breaks == {p \in close..Len(t) : t[p] = "\n"}
  IN IF close = 0 THEN <<>>
     ELSE IF breaks = {} THEN t
     ELSE SubSeq(t, 1, (CHOOSE p \in breaks : \A q \in breaks : p <= q) - 1)

\* C28: the 'interface' text of every record extract_sam_interfaces returns
\* has as many "{" as "}" and runs from the line of the declaration to the
\* line holding the brace that closes the opening brace of the declaration,
\* wherever the opening brace stands and whether or not the declaration is
\* closed before the end of the file.
C28_InterfaceBalanced ==
  pc = "returned" =>
    \A n \in 1..Len(ret) :
      /\ Count(ret[n].interface, "{") = Count(ret[n].interface, "}")
      /\ ret[n].interface = DeclarationText(arg, ret[n].line)

\* the line is a package declaration: package, blanks, a name, blanks
IsPackageLine(line) ==
  /\ StartsWith(line, <<"package", " ">>)
  /\ LET blanks == RunLength(line, 2, {" "})
         name == RunLength(line, 2 + blanks, PackageNameChars)
     IN /\ name > 0
        /\ \A p \in (2 + blanks + name)..Len(line) : line[p] = " "

\* the package declaration lines of a text
PackageLines(text) ==
  SelectSeq(SplitLines(text), IsPackageLine)

\* C29: for a content with at most one package declaration,
\* update_package_declaration returns a text with one package declaration
\* line, which names new_package; a content that declares new_package comes
\* back unchanged; and a second call on the result changes nothing.
C29_OnePackageLine ==
  /\ (pc = "updated" /\ Len(PackageLines(arg.content)) <= 1)
       => /\ Len(PackageLines(ret[1])) = 1
          /\ RStrip(PackageLines(ret[1])[1]) = <<"package", " ">> \o arg.new_package
          /\ PackageLines(arg.content) = << <<"package", " ">> \o arg.new_package >>
               => ret[1] = arg.content
  /\ (pc = "updated again" /\ Len(PackageLines(arg.content)) <= 1)
       => ret[2] = ret[1]

\* the file has a package declaration: a line that starts with 'package '
HasPackage(content) ==
  \E i \in 1..Len(SplitLines(content)) : StartsWith(SplitLines(content)[i], <<"package", " ">>)

\* how many lines of the text are equal to the given line
LineCount(text, line) ==
  Len(SelectSeq(SplitLines(text), LAMBDA l : l = line))

\* no import line of a requested model stands more than once in the text
NoRepeatedImport(text, models) ==
  \A k \in 1..Len(models) : LineCount(text, ImportLineOf(models[k])) <= 1

\* C30: after add_imports on a file with a package declaration the import
\* line of every requested model occurs exactly once among the lines of the
\* file, whatever imports the file held before (here: none of the requested
\* ones more than once), and a second call leaves the file as the first one
\* left it.
C30_ImportsOnce ==
  /\ (/\ pc \in {"added", "added again"}
      /\ HasPackage(arg.content)
      /\ NoRepeatedImport(arg.content, arg.models))
       => \A k \in 1..Len(arg.models) :
            LineCount(ret[1].file, ImportLineOf(arg.models[k])) = 1
  /\ (pc = "added again" /\ HasPackage(arg.content))
       => ret[2].file = ret[1].file
====
